---- MODULE Spec2Model ----
(***************************************************************************)
(* A model of the motiondetector pipeline: the clip recorder               *)
(* (analyzer/recorder.py) and the shared status store                      *)
(* (server/status_store.py), with the properties the specification states  *)
(* about them.                                                             *)
(*                                                                         *)
(* Conventions.                                                            *)
(*  - Python's None is the empty tuple <<>>; an optional number x is <<x>>. *)
(*  - A payload value that may be of several types is a record that says   *)
(*    which type it is (see "Python values of the status payloads").       *)
(*  - A Python str is a tuple of tokens, so that ==, startswith and strip  *)
(*    are computed and not assumed: "NO_MOTION_NO_AUDIO" is                *)
(*    <<"NO_MOTION", "_", "NO_AUDIO">>.                                    *)
(*  - Times are integers (seconds).                                        *)
(***************************************************************************)
EXTENDS Integers, Sequences, FiniteSets, TLC

VARIABLES
    \* ---- ClipRecorder (analyzer/recorder.py) ----
    cfg,        \* RecorderConfig of the recorder (frozen dataclass)
    rec,        \* the recorder's fields, and what it has put on disk
    now,        \* now_ts of the latest update call
    nupd,       \* number of update calls so far; call k carries frame k
    last,       \* what the latest recorder call did (observation only)
    start_ts,   \* now_ts of the update that started the latest session
    left_at,    \* now_ts of the update at which the active session's state
                \* stopped matching the trigger (None while it matches)
    run_starts, \* sessions started in the current run of matching updates
    \* ---- StatusStore (server/status_store.py) ----
    history_seconds, \* _history_seconds
    latest,          \* _latest, the payload stored last
    history,         \* _history, a StatusSample per set_latest: its ts
    grid_rows,       \* _grid_rows
    grid_cols,       \* _grid_cols
    disabled_tiles,  \* _disabled_tiles
    clock,           \* time.time()
    gp,              \* the get_payload call in progress: where it is and
                     \* what it has read
    \* ---- a direct call of ClipRecorder._state_matches_trigger ----
    matched,         \* the state given to the latest call, and its result
    \* ---- a direct call of _edges or _tile_means (monitor_loop.py) ----
    tiled,           \* the arguments of the latest call, and its result
    \* ---- AudioMeter (analyzer/audio_meter.py) ----
    acfg,            \* the constructor's arguments
    aud,             \* the audio thread: where it is, its locals, and the
                     \* level it has published
    \* ---- MonitorLoop (analyzer/monitor_loop.py) ----
    mcfg,            \* the DetectionParams the classifier reads
    mon,             \* the monitor thread: where it is in its tick, its
                     \* fields and the tick's locals
    pub,             \* what the latest tick published beside the fields
                     \* kept in latest (observation only)
    \* ---- StatusStore, its fields beside the payload, grid and mask ----
    ui,              \* _show_tile_numbers, _show_overlay_state, _region_*
                     \* and _quit_requested
    \* ---- main.py and the routes of server/server.py ----
    app              \* the shared region, the quit flag, the threads, and
                     \* what the latest request and tick did (observation)

rec_vars == <<cfg, rec, now, nupd, last, start_ts, left_at, run_starts>>
store_vars == <<history_seconds, latest, history, grid_rows, grid_cols,
                disabled_tiles, clock, gp>>
trig_vars == <<matched, tiled>>
aud_vars == <<acfg, aud>>
mon_vars == <<mcfg, mon, pub>>
app_vars == <<ui, app>>
vars == <<cfg, rec, now, nupd, last, start_ts, left_at, run_starts,
          history_seconds, latest, history, grid_rows, grid_cols,
          disabled_tiles, clock, gp, matched, tiled, acfg, aud, mcfg, mon,
          pub, ui, app>>

\* What the actions of one component leave alone.
not_rec_vars == <<store_vars, trig_vars, aud_vars, mon_vars, app_vars>>
not_store_vars == <<rec_vars, trig_vars, aud_vars, mon_vars, app_vars>>
not_trig_vars == <<rec_vars, store_vars, aud_vars, mon_vars, app_vars>>
not_aud_vars == <<rec_vars, store_vars, trig_vars, mon_vars, app_vars>>

None == <<>>

----------------------------------------------------------------------------
(* Bounds of the model.                                                    *)

MaxUpdates == 4       \* update calls in one behaviour
MaxDt == 1            \* seconds between two update calls: 0..MaxDt
PreRollFrames == 1    \* ceil(fps * pre_roll_seconds) of the specification
MaxHistory == 2       \* samples in the history
MaxTime == 3          \* the wall clock and the timestamps: 0..MaxTime
MaxThreads == 4       \* threads started by the start() calls

----------------------------------------------------------------------------
(* Strings.                                                                *)

IsPrefix(p, s) ==
    /\ Len(p) <= Len(s)
    /\ \A i \in 1..Len(p) : s[i] = p[i]

\* str.startswith
startswith(s, p) == IsPrefix(p, s)

S_NO_MOTION == <<"NO_MOTION">>
S_NO_MOTION_NO_AUDIO == <<"NO_MOTION", "_", "NO_AUDIO">>
S_NO_MOTIONX == <<"NO_MOTION", "X">>
S_MOTION_NO_AUDIO == <<"MOTION", "_", "NO_AUDIO">>

\* The states an update call is given.
RecorderStates ==
    { S_NO_MOTION, S_NO_MOTION_NO_AUDIO, S_NO_MOTIONX, S_MOTION_NO_AUDIO }

----------------------------------------------------------------------------
(* RecorderConfig.                                                         *)

\* fps as a fraction num/den: 1/2 and 3/2 frames per second.
FpsValues == { <<1, 2>>, <<3, 2>> }

\* clip_seconds > 0 and cooldown_seconds >= 0 (config.py); with FpsValues the
\* frame budgets are 1 (from 0.5), 2 (from 1.5) and 4 (from 4.5).
RecorderConfigs ==
    [ enabled : BOOLEAN,
      trigger_state : { S_NO_MOTION },
      clip_seconds : {1, 3},
      cooldown_seconds : {0, 2},
      fps : FpsValues,
      stop_grace_seconds : {0, 2} ]

\* Python's round() of the fraction n/d (d > 0, n >= 0): to nearest, ties to even.
round(n, d) ==
    LET q == n \div d
        r == n % d
    IN  IF 2 * r < d THEN q
        ELSE IF 2 * r > d THEN q + 1
        ELSE IF q % 2 = 0 THEN q ELSE q + 1

max(a, b) == IF a >= b THEN a ELSE b

\* max(1, int(round(float(clip_seconds) * float(fps))))
frame_budget(c) == max(1, round(c.clip_seconds * c.fps[1], c.fps[2]))

----------------------------------------------------------------------------
(* ClipRecorder.                                                           *)

\* ClipRecorder.__init__; clip and created describe the disk: the frames of
\* the file created last, and the update call that created it (0: no file).
RecorderInit ==
    [ writer |-> None,
      frames_left |-> 0,
      last_start_ts |-> 0,
      stop_deadline_ts |-> None,
      clip |-> <<>>,
      created |-> 0 ]

_state_matches_trigger(state) ==
    LET s == state
        trig == cfg.trigger_state
    IN  \/ s = trig
        \/ startswith(s, trig \o <<"_">>)

\* cv2.VideoWriter(...).isOpened(): the codecs this build can open are an
\* input of the call.
_open_writer(container, fourcc, codecs) ==
    IF fourcc \in codecs THEN <<container>> ELSE None

stop_keeps_deadline(r) ==
    [r EXCEPT !.writer = None, !.frames_left = 0]

stop(r) ==
    [r EXCEPT !.writer = None, !.frames_left = 0, !.stop_deadline_ts = None]

write_frame_unguarded(r, frame_bgr) ==
    LET w == [r EXCEPT !.clip = Append(@, frame_bgr), !.frames_left = @ - 1]
    IN  IF w.frames_left <= 0 THEN stop(w) ELSE w

write_frame_no_cap(r, frame_bgr) ==
    IF r.writer = None THEN r
    ELSE [r EXCEPT !.clip = Append(@, frame_bgr), !.frames_left = @ - 1]

write_frame(r, frame_bgr) ==
    IF r.writer = None THEN r
    ELSE LET w == [r EXCEPT !.clip = Append(@, frame_bgr),
                            !.frames_left = @ - 1]
         IN  IF w.frames_left <= 0 THEN stop(w) ELSE w

maybe_start_no_cooldown(r, now_ts, state, frame_bgr, codecs) ==
    IF ~_state_matches_trigger(state) THEN r
    ELSE IF r.writer # None THEN r
    ELSE LET mp4 == _open_writer("mp4", "mp4v", codecs)
             writer == IF mp4 = None THEN _open_writer("avi", "XVID", codecs)
                       ELSE mp4
         IN  IF writer = None THEN r
             ELSE [r EXCEPT !.writer = writer,
                            !.frames_left = frame_budget(cfg),
                            !.last_start_ts = now_ts,
                            !.stop_deadline_ts = None,
                            !.clip = <<>>,
                            !.created = frame_bgr]

maybe_start_stamps_first(r, now_ts, state, frame_bgr, codecs) ==
    IF ~_state_matches_trigger(state) THEN r
    ELSE IF r.writer # None THEN r
    ELSE IF /\ cfg.cooldown_seconds > 0
            /\ (now_ts - r.last_start_ts) < cfg.cooldown_seconds THEN r
    ELSE LET mp4 == _open_writer("mp4", "mp4v", codecs)
             writer == IF mp4 = None THEN _open_writer("avi", "XVID", codecs)
                       ELSE mp4
         IN  IF writer = None THEN [r EXCEPT !.last_start_ts = now_ts]
             ELSE [r EXCEPT !.writer = writer,
                            !.frames_left = frame_budget(cfg),
                            !.last_start_ts = now_ts,
                            !.stop_deadline_ts = None,
                            !.clip = <<>>,
                            !.created = frame_bgr]

maybe_start(r, now_ts, state, frame_bgr, codecs) ==
    IF ~_state_matches_trigger(state) THEN r
    ELSE IF r.writer # None THEN r
    ELSE IF /\ cfg.cooldown_seconds > 0
            /\ (now_ts - r.last_start_ts) < cfg.cooldown_seconds THEN r
    ELSE LET mp4 == _open_writer("mp4", "mp4v", codecs)
             writer == IF mp4 = None THEN _open_writer("avi", "XVID", codecs)
                       ELSE mp4
         IN  IF writer = None THEN r
             ELSE [r EXCEPT !.writer = writer,
                            !.frames_left = frame_budget(cfg),
                            !.last_start_ts = now_ts,
                            !.stop_deadline_ts = None,
                            !.clip = <<>>,
                            !.created = frame_bgr]

update_tail_no_grace(r1, now_ts, state, frame_bgr) ==
    IF r1.writer = None THEN r1
    ELSE IF _state_matches_trigger(state)
         THEN write_frame([r1 EXCEPT !.stop_deadline_ts = None], frame_bgr)
         ELSE stop(r1)

update_tail_keeps_deadline(r1, now_ts, state, frame_bgr) ==
    IF r1.writer = None THEN r1
    ELSE IF _state_matches_trigger(state)
         THEN write_frame(r1, frame_bgr)
         ELSE LET r2 == IF r1.stop_deadline_ts = None
                        THEN [r1 EXCEPT !.stop_deadline_ts =
                                            <<now_ts + cfg.stop_grace_seconds>>]
                        ELSE r1
              IN  IF now_ts >= r2.stop_deadline_ts[1] THEN stop(r2)
                  ELSE write_frame(r2, frame_bgr)

\* The part of update after maybe_start (recorder.py lines 109-127).
update_tail(r1, now_ts, state, frame_bgr) ==
    IF r1.writer = None THEN r1
    ELSE IF _state_matches_trigger(state)
         THEN write_frame([r1 EXCEPT !.stop_deadline_ts = None], frame_bgr)
         ELSE LET r2 == IF r1.stop_deadline_ts = None
                        THEN [r1 EXCEPT !.stop_deadline_ts =
                                            <<now_ts + cfg.stop_grace_seconds>>]
                        ELSE r1
              IN  IF now_ts >= r2.stop_deadline_ts[1] THEN stop(r2)
                  ELSE write_frame(r2, frame_bgr)

update(r, now_ts, state, frame_bgr, codecs) ==
    IF ~cfg.enabled THEN r
    ELSE update_tail(maybe_start(r, now_ts, state, frame_bgr, codecs),
                     now_ts, state, frame_bgr)

----------------------------------------------------------------------------
(* The recorder's callers: one update per processed frame, with            *)
(* non-decreasing now_ts; write_frame and stop are public too, and stop is *)
(* what MonitorLoop._run calls on its way out.                             *)

\* What this OpenCV build can open: both codecs, XVID only, or none.
Codecs == { {"mp4v", "XVID"}, {"XVID"}, {} }

\* The observation of a call: whether the state matched, whether a session
\* was active before the call and at its check after maybe_start (line 110),
\* whether a file was created, the frames written to files, the seconds since
\* the previous session start when one started, and when the session's state
\* had stopped matching before the call.
NoCall ==
    [ op |-> "init", match |-> FALSE, active0 |-> FALSE, active1 |-> FALSE,
      started |-> FALSE, wrote |-> 0, gap |-> None, left0 |-> None ]

RecInit ==
    /\ cfg \in RecorderConfigs
    /\ rec = RecorderInit
    /\ now = 0
    /\ nupd = 0
    /\ last = NoCall
    /\ start_ts = None
    /\ left_at = None
    /\ run_starts = 0

\* The call update(now_ts = now + dt, state, frame nupd + 1).
UpdateCall(dt, state, codecs) ==
    /\ nupd < MaxUpdates
    /\ LET now_ts == now + dt
           frame_bgr == nupd + 1
           r1 == maybe_start(rec, now_ts, state, frame_bgr, codecs)
           r3 == update(rec, now_ts, state, frame_bgr, codecs)
           started == r3.created # rec.created
           match == _state_matches_trigger(state)
       IN  /\ rec' = r3
           /\ now' = now_ts
           /\ nupd' = nupd + 1
           /\ last' = [ op |-> "update", match |-> match,
                        active0 |-> rec.writer # None,
                        active1 |-> cfg.enabled /\ r1.writer # None,
                        started |-> started,
                        wrote |-> IF started THEN Len(r3.clip)
                                  ELSE Len(r3.clip) - Len(rec.clip),
                        gap |-> IF started /\ start_ts # None
                                THEN <<now_ts - start_ts[1]>> ELSE None,
                        left0 |-> left_at ]
           /\ start_ts' = IF started THEN <<now_ts>> ELSE start_ts
           /\ left_at' = IF r3.writer = None \/ match THEN None
                         ELSE IF left_at = None THEN <<now_ts>> ELSE left_at
           /\ run_starts' = IF ~match THEN 0
                            ELSE IF started THEN run_starts + 1
                            ELSE run_starts
    /\ UNCHANGED cfg

Update(dt, state, codecs) ==
    /\ UpdateCall(dt, state, codecs)
    /\ UNCHANGED not_rec_vars

\* A direct write_frame call (frame 0 is not the frame of any update).
WriteFrame ==
    /\ last.op # "write_frame"
    /\ rec' = write_frame(rec, 0)
    /\ last' = [ op |-> "write_frame", match |-> FALSE,
                 active0 |-> rec.writer # None, active1 |-> rec.writer # None,
                 started |-> FALSE,
                 wrote |-> Len(write_frame(rec, 0).clip) - Len(rec.clip),
                 gap |-> None, left0 |-> left_at ]
    /\ left_at' = IF write_frame(rec, 0).writer = None THEN None ELSE left_at
    /\ UNCHANGED <<cfg, now, nupd, start_ts, run_starts>>
    /\ UNCHANGED not_rec_vars

\* MonitorLoop._run's finally: the recorder is stopped when the loop ends.
StopCall ==
    /\ rec' = stop(rec)
    /\ last' = [ op |-> "stop", match |-> FALSE,
                 active0 |-> rec.writer # None, active1 |-> rec.writer # None,
                 started |-> FALSE, wrote |-> 0, gap |-> None,
                 left0 |-> left_at ]
    /\ left_at' = None
    /\ run_starts' = 0
    /\ UNCHANGED <<cfg, now, nupd, start_ts>>

Stop ==
    /\ last.op # "stop"
    /\ StopCall
    /\ UNCHANGED not_rec_vars

----------------------------------------------------------------------------
(* Python values of the status payloads.  A value that may be of several   *)
(* types carries its type: a record with a type field and a content field. *)

\* Elements of video.tiles and of a disabled_tiles list. A float is written
\* in tenths (5 is 0.5); float() of the int k is the float k.0.
T_None == [t |-> "NoneType", v |-> 0]
T_True == [t |-> "bool", v |-> 1]
T_Str == [t |-> "str", v |-> 0]
T_Int(k) == [t |-> "int", v |-> k]
T_Float(k) == [t |-> "float", v |-> k]
float(x) == IF x.t = "float" THEN x ELSE T_Float(10 * x.v)

\* A str (at least one token) or a value that is not a str.
Str(s) == [is_str |-> TRUE, s |-> s]
NotStr == [is_str |-> FALSE, s |-> <<>>]

\* A list or a value that is not a list.
List(items) == [is_list |-> TRUE, items |-> items]
NotList == [is_list |-> FALSE, items |-> <<>>]

\* video.grid: a dict with rows and cols, or absent.
Grid(rows, cols) == [is_dict |-> TRUE, rows |-> rows, cols |-> cols]
NoGrid == [is_dict |-> FALSE, rows |-> 0, cols |-> 0]

\* payload.video: a dict with state, grid and tiles, or absent.
Video(state, grid, tiles) ==
    [is_dict |-> TRUE, state |-> state, grid |-> grid, tiles |-> tiles]
NoVideo ==
    [is_dict |-> FALSE, state |-> NotStr, grid |-> NoGrid, tiles |-> NotList]

\* A status payload: its timestamp (None when absent), its video section and
\* overall.state.
Payload(timestamp, video, overall_state) ==
    [timestamp |-> timestamp, video |-> video, overall_state |-> overall_state]

S_ERROR == <<"ERROR">>
S_OK == <<"OK">>
S_NOT_OK == <<"NOT_OK">>
S_UNKNOWN == <<"UNKNOWN">>

min(a, b) == IF a <= b THEN a ELSE b

\* str.strip: leading and trailing whitespace tokens removed.
RECURSIVE lstrip(_)
lstrip(s) == IF s # <<>> /\ Head(s) = " " THEN lstrip(Tail(s)) ELSE s

RECURSIVE rstrip(_)
rstrip(s) ==
    IF s # <<>> /\ s[Len(s)] = " " THEN rstrip(SubSeq(s, 1, Len(s) - 1)) ELSE s

strip(s) == rstrip(lstrip(s))

\* sorted() of a set of integers.
RECURSIVE sorted(_)
sorted(S) ==
    IF S = {} THEN <<>>
    ELSE LET m == CHOOSE x \in S : \A y \in S : x <= y
         IN  <<m>> \o sorted(S \ {m})

\* [0.0] * k
zeros(k) == [i \in 1..k |-> T_Float(0)]

----------------------------------------------------------------------------
(* StatusStore (server/status_store.py).                                   *)

\* StatusStore._default_payload
_default_payload(rows_arg, cols_arg, time) ==
    LET rows == max(1, rows_arg)
        cols == max(1, cols_arg)
    IN  Payload(<<time>>,
                Video(Str(S_ERROR), Grid(rows, cols), List(zeros(rows * cols))),
                Str(S_NOT_OK))

\* MonitorLoop._error_payload: grid 0x0 and no tiles.
_error_payload(time) ==
    Payload(<<time>>, Video(Str(S_ERROR), Grid(0, 0), List(<<>>)), Str(S_NOT_OK))

\* MonitorLoop._status_payload: one value per tile, None on the tiles that
\* were disabled when the frame was processed.
_status_payload(time, video_state, rows, cols, tiles, overall_state) ==
    Payload(<<time>>, Video(Str(video_state), Grid(rows, cols), List(tiles)),
            Str(overall_state))

\* StatusStore._trim_locked
RECURSIVE _trim_locked(_, _)
_trim_locked(h, time) ==
    LET cutoff == time - history_seconds
    IN  IF h # <<>> /\ Head(h).ts < cutoff THEN _trim_locked(Tail(h), time)
        ELSE h

\* StatusStore._current_state_locked
_current_state_locked(payload) ==
    IF /\ payload.video.is_dict
       /\ payload.video.state.is_str
       /\ strip(payload.video.state.s) # <<>>
    THEN strip(payload.video.state.s)
    ELSE IF /\ payload.overall_state.is_str
            /\ strip(payload.overall_state.s) # <<>>
         THEN strip(payload.overall_state.s)
         ELSE S_UNKNOWN

\* StatusStore.get_ui_settings: the settings that depend on the modelled
\* fields.
get_ui_settings ==
    [ show_tile_numbers |-> ui.show_tile_numbers,
      show_overlay_state |-> ui.show_overlay_state,
      grid_rows |-> grid_rows,
      grid_cols |-> grid_cols,
      region_x |-> ui.region.x,
      region_y |-> ui.region.y,
      region_width |-> ui.region.width,
      region_height |-> ui.region.height,
      current_state |-> _current_state_locked(latest) ]

\* A cleaning that keeps the order and the repetitions of the list.
cleaned_unsorted(disabled) ==
    LET keep == SelectSeq(disabled, LAMBDA d : d.t \in {"int", "bool"}
                                                /\ d.v >= 0)
    IN  [i \in 1..Len(keep) |-> keep[i].v]

\* The cleaning of a disabled_tiles list in set_disabled_tiles: the sorted
\* set of its non-negative ints (a bool is an int to isinstance).
cleaned(disabled) ==
    sorted({ disabled[i].v : i \in { j \in 1..Len(disabled) :
                 disabled[j].t \in {"int", "bool"} /\ disabled[j].v >= 0 } })

\* A bool taken as the int it is.
tile_value_bool_as_int(v) ==
    IF v.t = "NoneType" THEN T_None
    ELSE IF v.t \in {"int", "float", "bool"} THEN float(v)
    ELSE T_None

\* get_payload lines 188-198: a tile of the payload as a float or None.
tile_value(v) ==
    IF v.t = "NoneType" THEN T_None
    ELSE IF v.t = "bool" THEN T_None
    ELSE IF v.t \in {"int", "float"} THEN float(v)
    ELSE T_None

tiles_unsized(tiles_raw, n) ==
    IF tiles_raw.is_list
    THEN [i \in 1..Len(tiles_raw.items) |-> tile_value(tiles_raw.items[i])]
    ELSE <<>>

\* get_payload lines 183-204: the payload's tiles as n floats or Nones.
tiles_sized(tiles_raw, n) ==
    LET coerced == IF tiles_raw.is_list
                   THEN [i \in 1..min(Len(tiles_raw.items), n) |->
                             tile_value(tiles_raw.items[i])]
                   ELSE <<>>
        padded == IF Len(coerced) < n
                  THEN coerced \o zeros(n - Len(coerced)) ELSE coerced
    IN  IF Len(padded) > n THEN SubSeq(padded, 1, n) ELSE padded

\* get_payload lines 206-210: tile i is position i + 1 of the sequence.
apply_mask_skipped(tiles, disabled, n) == tiles

apply_mask(tiles, disabled, n) ==
    LET store_disabled_set ==
            { disabled[k] : k \in { j \in 1..Len(disabled) :
                                       0 <= disabled[j] /\ disabled[j] < n } }
    IN  [i \in 1..Len(tiles) |->
            IF (i - 1) \in store_disabled_set THEN T_None ELSE tiles[i]]

\* A clean video section whose disabled_tiles is the mask as the call has
\* read it.
clean_video_with_mask(payload, disabled, grid_rows_read, grid_cols_read) ==
    LET video == payload.video
        rows == max(1, IF video.grid.is_dict THEN video.grid.rows
                       ELSE grid_rows_read)
        cols == max(1, IF video.grid.is_dict THEN video.grid.cols
                       ELSE grid_cols_read)
        n == rows * cols
        tiles_out == apply_mask(tiles_sized(video.tiles, n), disabled, n)
    IN  [ state |-> IF video.is_dict THEN video.state ELSE Str(S_ERROR),
          grid |-> [rows |-> rows, cols |-> cols],
          tiles |-> tiles_out,
          tiles_indexed |-> [i \in 1..Len(tiles_out) |->
                                [tile |-> i - 1,
                                 value |-> IF tiles_out[i] = T_None
                                           THEN T_Str ELSE tiles_out[i]]],
          disabled_tiles |-> disabled ]

\* get_payload lines 164-234: the clean video section, from the payload, the
\* mask and the grid the call has read.
clean_video(payload, disabled, grid_rows_read, grid_cols_read) ==
    LET video == payload.video
        rows == max(1, IF video.grid.is_dict THEN video.grid.rows
                       ELSE grid_rows_read)
        cols == max(1, IF video.grid.is_dict THEN video.grid.cols
                       ELSE grid_cols_read)
        n == rows * cols
        tiles_out == apply_mask(tiles_sized(video.tiles, n), disabled, n)
        disabled_set == { i \in 0..(Len(tiles_out) - 1) :
                              tiles_out[i + 1] = T_None }
    IN  [ state |-> IF video.is_dict THEN video.state ELSE Str(S_ERROR),
          grid |-> [rows |-> rows, cols |-> cols],
          tiles |-> tiles_out,
          tiles_indexed |-> [i \in 1..Len(tiles_out) |->
                                [tile |-> i - 1,
                                 value |-> IF tiles_out[i] = T_None
                                           THEN T_Str ELSE tiles_out[i]]],
          disabled_tiles |-> sorted(disabled_set) ]

----------------------------------------------------------------------------
(* The store's callers: the monitor thread (set_latest), the HTTP handlers *)
(* (get_payload, get_history, set_disabled_tiles) and the UI (set_grid).   *)
(* Each method body under the lock is one step; get_payload takes the lock *)
(* in get_latest, in get_disabled_tiles and in get_ui_settings, and reads  *)
(* the grid fields without it.                                             *)

\* Arguments of the constructor and of set_grid.
GridArgs == {0, 1, 2}

\* history_seconds of the configuration.
HistorySeconds == {1, 2}

\* The tiles of a processed frame: motion on tile 0.
TilesMotion == <<T_Float(5), T_Float(0)>>

\* The tiles of a processed frame when tile 1 was disabled.
TilesMasked == <<T_Float(0), T_None>>

\* Tiles as another producer may send them: an int, a bool and a str.
TilesOdd == <<T_Int(1), T_True, T_Str>>

\* The payloads given to set_latest at a time: the monitor's error payload
\* and status payloads, and dicts without video, without grid and tiles,
\* without grid and with odd tiles, and with a negative grid size.
StorePayloads(time) ==
    { _error_payload(time),
      _status_payload(time, S_MOTION_NO_AUDIO, 1, 2, TilesMotion, S_OK),
      _status_payload(time, S_NO_MOTION_NO_AUDIO, 2, 1, TilesMasked, S_NOT_OK),
      Payload(<<time>>, NoVideo, NotStr),
      Payload(<<time>>, Video(NotStr, NoGrid, NotList), Str(S_NOT_OK)),
      Payload(<<time>>, Video(Str(S_MOTION_NO_AUDIO), NoGrid, List(TilesOdd)),
              Str(S_OK)),
      Payload(<<time>>, Video(NotStr, Grid(-1, 3), List(TilesMotion)), NotStr) }

\* Payloads whose timestamp is any time of the model, or absent.
TimedPayloads ==
    { Payload(ts, NoVideo, NotStr) : ts \in {None} \cup { <<t>> : t \in 0..MaxTime } }

\* The lists given to set_disabled_tiles.
DisabledLists ==
    { <<>>,
      <<T_Int(1)>>,
      <<T_Int(3), T_Int(0)>>,
      <<T_Int(1), T_Int(1)>>,
      <<T_Int(-1), T_Int(1)>>,
      <<T_Str, T_Int(1)>>,
      <<T_True>> }

\* A rectangle of the screen (analyzer/capture.py Region, and the four
\* _region_* fields of the store).
Rect(x, y, width, height) ==
    [x |-> x, y |-> y, width |-> width, height |-> height]

\* StatusStore.__init__, the fields beside the payload, the grid and the
\* mask: main.py passes show_tile_numbers and leaves the region to the
\* defaults of the constructor.
UiInit(show_tile_numbers) ==
    [ show_tile_numbers |-> show_tile_numbers,
      show_overlay_state |-> FALSE,
      region |-> Rect(0, 0, 640, 480),
      quit_requested |-> FALSE ]

\* No get_payload call in progress.
GetPayloadIdle ==
    [ pc |-> "idle", payload |-> Payload(None, NoVideo, NotStr),
      disabled |-> <<>>, rows |-> 0, cols |-> 0 ]

\* StatusStore.__init__ at time 0.
StoreInit(seconds, rows, cols) ==
    /\ history_seconds = seconds
    /\ grid_rows = max(1, rows)
    /\ grid_cols = max(1, cols)
    /\ latest = _default_payload(max(1, rows), max(1, cols), 0)
    /\ history = <<>>
    /\ disabled_tiles = <<>>
    /\ clock = 0
    /\ gp = GetPayloadIdle
    /\ ui = UiInit(TRUE)

\* StatusStore.set_latest
set_latest(payload) ==
    LET ts == IF payload.timestamp # None THEN payload.timestamp[1]
              ELSE clock
    IN  /\ latest' = payload
        /\ history' = _trim_locked(Append(history, [ts |-> ts]), ts)

SetLatest(payload) ==
    /\ Len(history) < MaxHistory
    /\ set_latest(payload)
    /\ UNCHANGED <<history_seconds, grid_rows, grid_cols, disabled_tiles,
                   clock, gp>>
    /\ UNCHANGED not_store_vars

SetGrid(rows, cols) ==
    /\ grid_rows' = max(1, rows)
    /\ grid_cols' = max(1, cols)
    /\ UNCHANGED <<history_seconds, latest, history, disabled_tiles, clock, gp>>
    /\ UNCHANGED not_store_vars

SetDisabledTiles(disabled) ==
    /\ disabled_tiles' = cleaned(disabled)
    /\ UNCHANGED <<history_seconds, latest, history, grid_rows, grid_cols,
                   clock, gp>>
    /\ UNCHANGED not_store_vars

\* get_payload line 162: payload = self.get_latest()
GetPayload_get_latest ==
    /\ gp.pc = "idle"
    /\ gp' = [gp EXCEPT !.pc = "got_latest", !.payload = latest]
    /\ UNCHANGED <<history_seconds, latest, history, grid_rows, grid_cols,
                   disabled_tiles, clock>>
    /\ UNCHANGED not_store_vars

\* get_payload line 168: disabled = self.get_disabled_tiles()
GetPayload_get_disabled_tiles ==
    /\ gp.pc = "got_latest"
    /\ gp' = [gp EXCEPT !.pc = "got_disabled", !.disabled = disabled_tiles]
    /\ UNCHANGED <<history_seconds, latest, history, grid_rows, grid_cols,
                   disabled_tiles, clock>>
    /\ UNCHANGED not_store_vars

\* get_payload lines 173 and 176: the read of self._grid_rows
GetPayload_read_grid_rows ==
    /\ gp.pc = "got_disabled"
    /\ gp' = [gp EXCEPT !.pc = "got_rows", !.rows = grid_rows]
    /\ UNCHANGED <<history_seconds, latest, history, grid_rows, grid_cols,
                   disabled_tiles, clock>>
    /\ UNCHANGED not_store_vars

\* get_payload lines 174 and 177: the read of self._grid_cols
GetPayload_read_grid_cols ==
    /\ gp.pc = "got_rows"
    /\ gp' = [gp EXCEPT !.pc = "got_cols", !.cols = grid_cols]
    /\ UNCHANGED <<history_seconds, latest, history, grid_rows, grid_cols,
                   disabled_tiles, clock>>
    /\ UNCHANGED not_store_vars

\* What get_payload returns when its last lines (179-263) run now: the clean
\* video section from what the call has read, and the ui settings of now.
get_payload_return ==
    [ timestamp |-> gp.payload.timestamp,
      video |-> clean_video(gp.payload, gp.disabled, gp.rows, gp.cols),
      ui |-> get_ui_settings ]

\* The fields of the store that get_payload reads.
StoreFields == <<latest, disabled_tiles, grid_rows, grid_cols, ui>>

\* The containers (dicts and lists) of a status payload, each named by its
\* path from the payload.  A value read from the store is described by the
\* paths at which it holds the store's own object and not a copy.
Containers ==
    { <<>>, <<"capture">>, <<"video">>, <<"video", "grid">>,
      <<"video", "tiles">>, <<"audio">>, <<"overall">>,
      <<"overall", "reasons">>, <<"errors">>, <<"region">>, <<"ui">> }

\* self._latest
the_latest == Containers

\* No copy: the container itself.
no_copy(shared, path) == shared

\* dict(x) and list(x) of the container at a path: a new container there,
\* holding the same elements.
copy(shared, path) == shared \ {path}

\* out[key] = a value built from numbers and strings: nothing of the store
\* at the path or below it.
built(shared, path) == { q \in shared : ~IsPrefix(path, q) }

\* StatusStore.get_latest: dict(self._latest)
get_latest_shared == copy(the_latest, <<>>)

\* get_payload line 237: out = dict(payload)
get_payload_out == copy(get_latest_shared, <<>>)

\* get_payload lines 237-263: what the returned value shares with the store.
\* The audio section is left as dict(payload) took it, and dict(overall_raw)
\* holds the reasons list of the stored payload.
get_payload_shared ==
    LET video == built(get_payload_out, <<"video">>)
        capture == copy(video, <<"capture">>)
        overall == copy(capture, <<"overall">>)
        region == copy(overall, <<"region">>)
        errors == copy(region, <<"errors">>)
    IN  built(errors, <<"ui">>)

\* The store's containers that get_payload assigns into: its assignments
\* (lines 238-261) are all to keys of out, its other lists and dicts are
\* built by the call.
get_payload_writes == { <<>> } \cap get_payload_out

\* No write came between the reads of the call in progress: each read saw
\* the store as it is.
ReadsCurrent ==
    /\ gp.payload = latest
    /\ gp.disabled = disabled_tiles
    /\ gp.rows = grid_rows
    /\ gp.cols = grid_cols

\* get_payload lines 179-263: the call returns get_payload_return.  Line 238
\* assigns the clean video section to out["video"].
GetPayload_return ==
    /\ gp.pc = "got_cols"
    /\ gp' = GetPayloadIdle
    /\ latest' = IF get_payload_writes = {}
                 THEN latest
                 ELSE [latest EXCEPT
                          !.video = clean_video(gp.payload, gp.disabled,
                                                gp.rows, gp.cols)]
    /\ app' = IF app.watch
              THEN [app EXCEPT
                       !.ret = <<[value |-> get_payload_return,
                                  store |-> StoreFields,
                                  whole |-> ReadsCurrent]>>,
                       !.held = <<get_payload_shared>>,
                       !.touched = @ \cup get_payload_writes]
              ELSE app
    /\ UNCHANGED <<history_seconds, history, grid_rows, grid_cols,
                   disabled_tiles, clock, ui>>
    /\ UNCHANGED <<rec_vars, trig_vars, aud_vars, mon_vars>>

\* A caller changes the container at a path of the value get_payload gave
\* it (an item assignment, append, clear or del): the store's container is
\* changed when the value holds it there.
Mutate(path) ==
    /\ app.held # None
    /\ app' = [app EXCEPT !.touched = @ \cup ({path} \cap app.held[1])]
    /\ UNCHANGED <<history_seconds, latest, history, grid_rows, grid_cols,
                   disabled_tiles, clock, gp, ui>>
    /\ UNCHANGED <<rec_vars, trig_vars, aud_vars, mon_vars>>

\* The wall clock (time.time()) advances.
Tick ==
    /\ clock < MaxTime
    /\ clock' = clock + 1
    /\ UNCHANGED <<history_seconds, latest, history, grid_rows, grid_cols,
                   disabled_tiles, gp>>
    /\ UNCHANGED not_store_vars

\* What get_history returns when called now: a payload per sample left after
\* the trim, here the sample.
get_history_return == _trim_locked(history, clock)

\* get_history, and get_payload_history which returns the same samples with
\* the ui settings added to each.
GetHistory ==
    /\ history' = get_history_return
    /\ UNCHANGED <<history_seconds, latest, grid_rows, grid_cols,
                   disabled_tiles, clock, gp>>
    /\ UNCHANGED not_store_vars

----------------------------------------------------------------------------
(* AudioMeter (analyzer/audio_meter.py).  Peaks and thresholds are in one  *)
(* unit, times in units of half the hold time; the loopback stream is read *)
(* as one channel, so left = right = peak.  A level is a fraction          *)
(* <<numerator, denominator>> of that unit.                                *)

Backends == { "pycaw", "pyaudiowpatch" }

\* The arguments of AudioMeter.__init__ after its clamping: thresholds with
\* off <= on (config.py), hold_ms >= 0, smooth_samples >= 1.
AudioConfigs ==
    [ enabled : BOOLEAN, backend : Backends, on_threshold : {3},
      off_threshold : {1}, hold_ms : {2}, smooth_samples : {1, 2} ]

\* What the audio source can deliver at one poll, and the time since the
\* poll before.
Peaks == {0, 2, 4}
PollDts == {0, 1, 2}

AudioLevel(available, left, right, detected, reason) ==
    [ available |-> available, left |-> left, right |-> right,
      detected |-> detected, reason |-> reason ]

Unavailable(reason) == AudioLevel(FALSE, <<0, 1>>, <<0, 1>>, FALSE, reason)

\* AudioMeter.__init__: nothing published yet, the thread not started.
\* heard, was, polled and held observe the latest poll: the peaks of the
\* last smooth_samples polls, the detected flag published before it, and
\* whether hold_ms had passed since that flag last changed.  pa and stream
\* are the PyAudio handle and the input stream of _run_loopback.
AudioNew ==
    [ pc |-> "new", level |-> Unavailable("not_initialized"),
      stop |-> FALSE, has_audio |-> FALSE, elapsed |-> 0, history |-> <<>>,
      heard |-> <<>>, was |-> FALSE, polled |-> FALSE, held |-> FALSE,
      thread |-> None, pa |-> "none", stream |-> "none" ]

RECURSIVE sum(_)
sum(s) == IF s = <<>> THEN 0 ELSE s[1] + sum(Tail(s))

\* deque(maxlen=n).append(x)
append_maxlen(d, x, n) ==
    IF Len(d) < n THEN Append(d, x) ELSE Append(Tail(d), x)

\* get_level: a new AudioLevel of the fields, read under the lock.
get_level == aud.level

\* The except clause unchanged but for the level: the loop goes on.
_run_loopback_retry(a) ==
    [a EXCEPT !.level = Unavailable("capture_failed"), !.polled = FALSE]

\* _run_loopback lines 267-270: the except clause.  The level becomes
\* unavailable, and the thread sleeps until the stop event is set.
_run_loopback_except(a) ==
    [a EXCEPT !.pc = "failed", !.level = Unavailable("capture_failed"),
              !.polled = FALSE]

\* _run up to its first _set: the meter disabled, the backend's module
\* missing, the loopback stream failing to open (the device is not found,
\* is not an input or pa.open raises), or the loop entered.
AudioStart(module_ok, opens) ==
    /\ aud.pc = "new"
    /\ aud' =
         IF ~acfg.enabled
         THEN [aud EXCEPT !.pc = "done", !.level = Unavailable("disabled")]
         ELSE IF acfg.backend = "pycaw"
         THEN IF ~module_ok
              THEN [aud EXCEPT !.pc = "done",
                        !.level = Unavailable("pycaw_module_missing")]
              ELSE [aud EXCEPT !.pc = "running", !.has_audio = FALSE,
                        !.elapsed = 0, !.history = <<>>,
                        !.level = AudioLevel(TRUE, <<0, 1>>, <<0, 1>>,
                                             FALSE, "ok")]
         ELSE IF ~module_ok
              THEN [aud EXCEPT !.pc = "done",
                        !.level = Unavailable("pyaudiowpatch_module_missing")]
              ELSE IF ~opens
              THEN _run_loopback_except([aud EXCEPT !.pa = "live"])
              ELSE [aud EXCEPT !.pc = "running", !.pa = "live",
                        !.stream = "open",
                        !.level = AudioLevel(TRUE, <<0, 1>>, <<0, 1>>,
                                             FALSE, "ok")]
    /\ UNCHANGED acfg
    /\ UNCHANGED not_aud_vars

\* One pass of the loop of _run_pycaw: the Schmitt trigger with hold time
\* over the mean of the history.
_run_pycaw(peak, dt) ==
    LET hist == append_maxlen(aud.history, peak, acfg.smooth_samples)
        \* smooth_peak >= t  iff  sum(hist) >= t * len(history)
        elapsed_ms == min(aud.elapsed + dt, acfg.hold_ms)
        on == /\ ~aud.has_audio
              /\ sum(hist) >= acfg.on_threshold * Len(hist)
              /\ elapsed_ms >= acfg.hold_ms
        off == /\ aud.has_audio
               /\ sum(hist) <= acfg.off_threshold * Len(hist)
               /\ elapsed_ms >= acfg.hold_ms
        has_audio == IF on THEN TRUE ELSE IF off THEN FALSE
                     ELSE aud.has_audio
        level_pct == <<sum(hist), Len(hist)>>
    IN  [aud EXCEPT !.history = hist,
                    !.has_audio = has_audio,
                    !.elapsed = IF on \/ off THEN 0 ELSE elapsed_ms,
                    !.level = AudioLevel(TRUE, level_pct, level_pct,
                                         has_audio, "ok"),
                    !.heard = hist,
                    !.was = aud.level.detected,
                    !.polled = TRUE,
                    !.held = elapsed_ms >= acfg.hold_ms]

\* One pass of the loop of _run_loopback: the block's peak against the on
\* threshold.  elapsed is not a local of this loop: it is kept for held.
_run_loopback(peak, dt) ==
    LET elapsed_ms == min(aud.elapsed + dt, acfg.hold_ms)
        detected == peak >= acfg.on_threshold
    IN  [aud EXCEPT !.level = AudioLevel(TRUE, <<peak, 1>>, <<peak, 1>>,
                                         detected, "ok"),
                    !.elapsed = IF detected # aud.level.detected THEN 0
                                ELSE elapsed_ms,
                    !.heard = append_maxlen(aud.heard, peak,
                                            acfg.smooth_samples),
                    !.was = aud.level.detected,
                    !.polled = TRUE,
                    !.held = elapsed_ms >= acfg.hold_ms]

\* A pass of the loop, entered while the stop event is not set.
AudioPoll(peak, dt) ==
    /\ aud.pc = "running"
    /\ ~aud.stop
    /\ aud' = IF acfg.backend = "pycaw" THEN _run_pycaw(peak, dt)
              ELSE _run_loopback(peak, dt)
    /\ UNCHANGED acfg
    /\ UNCHANGED not_aud_vars

\* stream.read raises in _run_loopback: the level becomes unavailable and
\* the thread idles until stopped.
AudioFail ==
    /\ aud.pc = "running"
    /\ acfg.backend = "pyaudiowpatch"
    /\ aud' = _run_loopback_except(aud)
    /\ UNCHANGED acfg
    /\ UNCHANGED not_aud_vars

\* _run_loopback line 221: pyaudio.PyAudio() raises, before the try
\* statement: the exception ends the thread, nothing is published.
AudioInitRaises ==
    /\ aud.pc = "new"
    /\ acfg.enabled /\ acfg.backend = "pyaudiowpatch"
    /\ aud' = [aud EXCEPT !.pc = "raised"]
    /\ UNCHANGED acfg
    /\ UNCHANGED not_aud_vars

\* _run_loopback lines 245, 269 and 271-278: the loop, or the sleep of the
\* except clause, finds the stop event set, and the finally clause runs.
\* stream.close() closes the stream; when stream.stop_stream() raises,
\* close() is skipped and pa.terminate() closes the stream, as it does for
\* every stream of the handle that is open.
AudioLoopbackEnds(stop_raises) ==
    /\ aud.pc \in {"running", "failed"}
    /\ acfg.backend = "pyaudiowpatch"
    /\ aud.stop
    /\ aud' = [aud EXCEPT
                  !.pc = "done",
                  !.stream = IF @ = "none" THEN "none"
                             ELSE IF stop_raises THEN "closed by terminate"
                             ELSE "closed",
                  !.pa = "terminated"]
    /\ UNCHANGED acfg
    /\ UNCHANGED not_aud_vars

\* The meter constructed and not started.
AudioIdle ==
    /\ acfg \in { c \in AudioConfigs :
                    ~c.enabled /\ c.backend = "pyaudiowpatch"
                    /\ c.smooth_samples = 1 }
    /\ aud = AudioNew

----------------------------------------------------------------------------
(* MonitorLoop (analyzer/monitor_loop.py).  A frame is its shape and the   *)
(* normalised activity of each tile against the frame before it.           *)
(* Activities and thresholds are in tenths; a mean and the EMA are         *)
(* fractions <<numerator, denominator>> of tenths in lowest terms.  A      *)
(* label is a tuple of tokens: <<"NO_MOTION", "_", "NO_AUDIO">>.           *)

\* The DetectionParams of the classifier: grace >= 0 and ratio in [0, 1]
\* (config.py).
MonitorConfigs ==
    [ no_motion_threshold : {1}, low_activity_threshold : {3},
      ema_alpha : { <<1, 2>> },
      no_motion_grace_period_seconds : {0, 1},
      no_motion_grace_required_ratio : { <<1, 2>>, <<1, 1>> } ]

FrameShapes == { "A", "B" }
TileLevels == {0, 4}

RECURSIVE gcd(_, _)
gcd(a, b) == IF b = 0 THEN a ELSE gcd(b, a % b)

\* The fraction n/d (n >= 0, d > 0) in lowest terms.
frac(n, d) == <<n \div gcd(n, d), d \div gcd(n, d)>>

\* _clamp01 of a fraction
_clamp01(x) ==
    IF x[1] < 0 THEN <<0, 1>> ELSE IF x[1] > x[2] THEN <<1, 1>> ELSE x

\* The sum of the k largest values.
RECURSIVE top_sum(_, _)
top_sum(values, k) ==
    IF k = 0 \/ values = <<>> THEN 0
    ELSE LET i == CHOOSE i \in 1..Len(values) :
                      \A j \in 1..Len(values) : values[i] >= values[j]
         IN  values[i] + top_sum(SubSeq(values, 1, i - 1)
                                 \o SubSeq(values, i + 1, Len(values)), k - 1)

\* round(n / d) of Python 3 for n >= 0 and d > 0: to the nearest integer, a
\* half to the even one.
py_round(n, d) ==
    LET q == n \div d
        r == n % d
    IN  IF 2 * r < d THEN q
        ELSE IF 2 * r > d THEN q + 1
        ELSE IF q % 2 = 0 THEN q ELSE q + 1

\* _edges lines 154-156: every entry raised to the one before it.
RECURSIVE raise_to_previous(_, _)
raise_to_previous(out, i) ==
    IF i > Len(out) THEN out
    ELSE raise_to_previous(
             IF out[i] < out[i - 1] THEN [out EXCEPT ![i] = out[i - 1]]
             ELSE out, i + 1)

\* What a raise leaves in place of a value.
ValueError == <<"ValueError">>

\* _edges(size, parts)
_edges(size, parts) ==
    IF size < 0 \/ parts <= 0 THEN ValueError
    ELSE LET out == [ i \in 1..(parts + 1) |->
                        IF i = 1 THEN 0
                        ELSE IF i = parts + 1 THEN size
                        ELSE py_round((i - 1) * size, parts) ]
         IN  raise_to_previous(out, 2)

\* diff_u8[y0:y1, x0:x1].sum() for an image [h, w, at], at[<<y, x>>] the
\* pixel of row y - 1 and column x - 1.
tile_sum(diff_u8, y0, y1, x0, x1) ==
    LET n == (y1 - y0) * (x1 - x0)
    IN  sum([ k \in 1..n |->
                diff_u8.at[<<y0 + ((k - 1) \div (x1 - x0)) + 1,
                             x0 + ((k - 1) % (x1 - x0)) + 1>>] ])

\* _tile_means lines 181-182: the mean of a tile over 255 as a fraction.
tile_mean(diff_u8, y0, y1, x0, x1) ==
    LET size == (y1 - y0) * (x1 - x0)
    IN  IF size # 0 THEN frac(tile_sum(diff_u8, y0, y1, x0, x1), 255 * size)
        ELSE <<0, 1>>

_tile_means_column_major(diff_u8, rows, cols) ==
    IF rows <= 0 \/ cols <= 0 THEN ValueError
    ELSE LET x_edges == _edges(diff_u8.w, cols)
             y_edges == _edges(diff_u8.h, rows)
         IN  [ k \in 1..(rows * cols) |->
                 LET c == (k - 1) \div rows
                     r == (k - 1) % rows
                 IN  tile_mean(diff_u8, y_edges[r + 1], y_edges[r + 2],
                               x_edges[c + 1], x_edges[c + 2]) ]

\* _tile_means(diff_u8, rows=rows, cols=cols)
_tile_means(diff_u8, rows, cols) ==
    IF rows <= 0 \/ cols <= 0 THEN ValueError
    ELSE LET x_edges == _edges(diff_u8.w, cols)
             y_edges == _edges(diff_u8.h, rows)
         IN  [ k \in 1..(rows * cols) |->
                 LET r == (k - 1) \div cols
                     c == (k - 1) % cols
                 IN  tile_mean(diff_u8, y_edges[r + 1], y_edges[r + 2],
                               x_edges[c + 1], x_edges[c + 2]) ]

_topk_mean_of_all(values, k) ==
    IF values = <<>> THEN <<0, 1>>
    ELSE frac(top_sum(values, Len(values)), Len(values))

_topk_mean(values, k) ==
    IF values = <<>> THEN <<0, 1>>
    ELSE LET kk == max(1, min(k, Len(values)))
         IN  frac(top_sum(values, kk), kk)

\* The store's list as it is.
_get_disabled_tiles_unchecked(n_tiles) == disabled_tiles

\* _get_disabled_tiles: the store's list, the indices within the grid kept.
_get_disabled_tiles(n_tiles) ==
    sorted({ disabled_tiles[i] : i \in { j \in 1..Len(disabled_tiles) :
                 0 <= disabled_tiles[j] /\ disabled_tiles[j] < n_tiles } })

popleft_never(votes, cutoff) == votes

RECURSIVE popleft_while(_, _)
popleft_while(votes, cutoff) ==
    IF votes # <<>> /\ votes[1].ts < cutoff
    THEN popleft_while(Tail(votes), cutoff) ELSE votes

_resolve_always_in_window(votes, ts, no_motion_candidate) ==
    LET v == popleft_while(
                 Append(votes, [ts |-> ts, vote |-> no_motion_candidate]),
                 ts - mcfg.no_motion_grace_period_seconds)
    IN  [state |-> IF no_motion_candidate THEN "NO_MOTION"
                   ELSE "MOTION_OR_LOW",
         votes |-> v]

\* _resolve_video_state_with_grace: the state it returns and the deque it
\* leaves.
_resolve_video_state_with_grace(votes, ts, no_motion_candidate) ==
    LET grace_period == max(0, mcfg.no_motion_grace_period_seconds)
        required_ratio == _clamp01(mcfg.no_motion_grace_required_ratio)
        now_only == IF no_motion_candidate THEN "NO_MOTION"
                    ELSE "MOTION_OR_LOW"
        v == popleft_while(
                 Append(votes, [ts |-> ts, vote |-> no_motion_candidate]),
                 ts - grace_period)
        window_count == Len(v)
        no_motion_count == Cardinality({ i \in 1..Len(v) : v[i].vote })
    IN  IF grace_period <= 0 THEN [state |-> now_only, votes |-> votes]
        ELSE IF window_count = 0
        THEN [state |-> "MOTION_OR_LOW", votes |-> v]
        ELSE IF no_motion_count * required_ratio[2]
                    >= required_ratio[1] * window_count
        THEN [state |-> "NO_MOTION", votes |-> v]
        ELSE [state |-> "MOTION_OR_LOW", votes |-> v]

\* MonitorLoop.__init__, no tick begun.  t0, region, rows, cols, disabled
\* and audio are what the latest tick read at lines 425, 426 and 550-558;
\* tiles are the tiles of the tick in progress; stop is the Event _stop;
\* sct says that the capturer holds an mss instance for the monitor thread
\* (capture.py _get_tls, made by the first grab).
MonitorNew ==
    [ pc |-> "idle", prev_gray |-> None, ema_activity |-> <<0, 1>>,
      prev_state |-> S_ERROR, no_motion_votes |-> <<>>,
      t0 |-> None, rows |-> 0, cols |-> 0, disabled |-> <<>>,
      tiles |-> <<>>, audio |-> Unavailable("not_initialized"),
      region |-> None, stop |-> FALSE, sct |-> FALSE, thread |-> None ]

\* Nothing published: what a tick that reaches no set_latest leaves.
\* kind is the branch that built the payload; frame and prev are the shape
\* of the frame the tick analysed and the shape of the previous frame (None
\* when there is none); base, candidate and top1 are the motion_state, the
\* vote and motion_instant_top1 of a classified tick; log holds the votes
\* of the classified ticks since the latest warm-up or tick with every tile
\* disabled, none dropped.
PubNone ==
    [ kind |-> "none", capture_state |-> <<>>, capture_reason |-> <<>>,
      stale |-> FALSE, overall_reasons |-> <<>>, errors |-> <<>>,
      audio |-> Unavailable("not_initialized"), fed |-> FALSE,
      frame |-> None, prev |-> None,
      base |-> "", candidate |-> FALSE, top1 |-> <<0, 1>>, log |-> <<>> ]

\* The fields of _status_payload and _error_payload that latest does not
\* keep.
Published(kind, capture, stale, overall_reasons, errors, audio) ==
    [ pub EXCEPT !.kind = kind, !.capture_state = capture[1],
                 !.capture_reason = capture[2], !.stale = stale,
                 !.overall_reasons = overall_reasons, !.errors = errors,
                 !.audio = audio, !.fed = FALSE, !.frame = None,
                 !.prev = None, !.base = "", !.candidate = FALSE,
                 !.top1 = <<0, 1>> ]

\* _run lines 423-425: the stop event is not set and a tick begins, later
\* than the one before it.  A clock above MaxTime stands for every later
\* time: the ticks at it go on without end.
TickBegins ==
    /\ mon.pc = "idle"
    /\ ~mon.stop
    /\ IF mon.t0 = None THEN TRUE
       ELSE mon.t0[1] < clock \/ clock > MaxTime

\* _run line 426: get_region raises outside the try blocks; the loop ends
\* and the finally clause stops the recorder and the audio meter.  Its call
\* of capturer.close_thread_resources raises AttributeError, which it
\* swallows: ScreenCapturer has no such method, the mss instance stays.
RegionRaises ==
    /\ TickBegins
    /\ mon' = [mon EXCEPT !.pc = "dead", !.t0 = <<clock>>]
    /\ pub' = [PubNone EXCEPT !.log = pub.log]
    /\ StopCall
    /\ aud' = [aud EXCEPT !.stop = TRUE]
    /\ UNCHANGED <<mcfg, acfg, store_vars, trig_vars, app_vars>>

\* _run lines 426-439: the region is read, and sct.grab raises in grab, or
\* _process_frame raises before it has changed a field (in _to_gray_u8);
\* the error payload is published and the loop goes on.
TickRaises(where) ==
    /\ TickBegins
    /\ LET reason == IF where = "grab" THEN <<"message">>
                     ELSE <<"process_failed: ", "message">>
       IN  /\ set_latest(_error_payload(clock))
           /\ pub' = Published("error", <<S_ERROR, reason>>, TRUE,
                               <<"capture_error">>, <<reason>>, get_level)
    /\ mon' = [mon EXCEPT !.t0 = <<clock>>, !.region = <<app.region>>,
                          !.sct = TRUE]
    /\ UNCHANGED <<history_seconds, grid_rows, grid_cols, disabled_tiles,
                   clock, gp>>
    /\ UNCHANGED <<mcfg, rec_vars, trig_vars, aud_vars, app_vars>>

\* video.tiles: the values as floats, None on the disabled tiles.
tiles_for_json(values, disabled) ==
    [ i \in 1..Len(values) |->
        IF \E j \in 1..Len(disabled) : disabled[j] = i - 1 THEN T_None
        ELSE T_Float(values[i]) ]

warm_up_keeps_votes(m, shape) ==
    [m EXCEPT !.prev_gray = <<shape>>, !.prev_state = S_ERROR,
              !.ema_activity = <<0, 1>>]

\* _process_frame lines 562-566: the fields after a warm-up.
warm_up(m, shape) ==
    [m EXCEPT !.prev_gray = <<shape>>, !.prev_state = S_ERROR,
              !.ema_activity = <<0, 1>>, !.no_motion_votes = <<>>]

\* _run lines 426-437 and _process_frame lines 549-592: the region is read
\* and grabbed; no previous frame of this shape.
WarmUp(shape) ==
    /\ TickBegins
    /\ mon.prev_gray # <<shape>>
    /\ LET audio == get_level
           rows == grid_rows
           cols == grid_cols
           disabled == _get_disabled_tiles(rows * cols)
           tiles_init == tiles_for_json([i \in 1..(rows * cols) |-> 0],
                                        disabled)
       IN  /\ mon' = [warm_up(mon, shape) EXCEPT
                         !.t0 = <<clock>>, !.rows = rows, !.cols = cols,
                         !.disabled = disabled, !.audio = audio,
                         !.region = <<app.region>>, !.sct = TRUE]
           /\ set_latest(_status_payload(clock, S_ERROR, rows, cols,
                                         tiles_init, S_NOT_OK))
           /\ pub' = [Published("warming_up", <<S_OK, <<"ok">> >>, FALSE,
                                <<"warming_up">>, << <<"warming_up">> >>,
                               audio)
                        EXCEPT !.frame = <<shape>>, !.prev = mon.prev_gray,
                               !.log = <<>>]
    /\ UNCHANGED <<history_seconds, grid_rows, grid_cols, disabled_tiles,
                   clock, gp>>
    /\ UNCHANGED <<mcfg, rec_vars, trig_vars, aud_vars, app_vars>>

\* _run lines 426-430 and _process_frame lines 549-624: the region is read
\* and grabbed, a frame of the previous shape; the level, the grid and the
\* mask are read and the tiles computed.
Analyse(shape, tiles) ==
    /\ TickBegins
    /\ mon.prev_gray = <<shape>>
    /\ Len(tiles) = grid_rows * grid_cols
    /\ mon' = [mon EXCEPT !.pc = "analysed", !.t0 = <<clock>>,
                          !.rows = grid_rows, !.cols = grid_cols,
                          !.disabled =
                              _get_disabled_tiles(grid_rows * grid_cols),
                          !.tiles = tiles, !.audio = get_level,
                          !.region = <<app.region>>, !.sct = TRUE]
    /\ UNCHANGED <<mcfg, pub, rec_vars, store_vars, trig_vars, aud_vars,
                   app_vars>>

\* The values of the tiles that are not disabled, in index order.
enabled_values(values, disabled) ==
    LET idx == sorted({ i \in 1..Len(values) :
                          \A j \in 1..Len(disabled) : disabled[j] # i - 1 })
    IN  [ k \in 1..Len(idx) |-> values[idx[k]] ]

all_tiles_disabled_keeps_ema(m) ==
    [m EXCEPT !.no_motion_votes = <<>>]

\* _process_frame lines 629-630: the fields after a tick with every tile
\* disabled.
all_tiles_disabled_reset(m) ==
    [m EXCEPT !.ema_activity = <<0, 1>>, !.no_motion_votes = <<>>]

overall_ok_unless_no_motion(motion_state) ==
    IF motion_state # "NO_MOTION" THEN [state |-> S_OK, reasons |-> <<>>]
    ELSE [state |-> S_NOT_OK, reasons |-> <<"no_motion_enabled_tiles">>]

\* _process_frame lines 669-670
overall(motion_state) ==
    IF motion_state = "MOTION" THEN [state |-> S_OK, reasons |-> <<>>]
    ELSE [state |-> S_NOT_OK, reasons |-> <<"no_motion_enabled_tiles">>]

\* _process_frame lines 672-676; AudioLevel always has a detected field.
audio_suffix(audio) ==
    IF audio.available
    THEN IF audio.detected THEN "WITH_AUDIO" ELSE "NO_AUDIO"
    ELSE "NOSOUNDHARDWARE"

audio_of_tick_first(first, second) == first

\* _process_frame lines 550 and 626 assign audio twice: what line 701 hands
\* to _status_payload is the level read last.
audio_of_tick(first, second) == second

\* _process_frame lines 620-676 at timestamp ts with the level read at line
\* 626: the fields the branch leaves, the label and overall.
classify(m, ts, audio) ==
    LET enabled_tiles_norm == enabled_values(m.tiles, m.disabled)
        all_tiles_disabled == Len(enabled_tiles_norm) = 0
        motion_instant_top1 == _topk_mean(enabled_tiles_norm, 1)
        motion_instant_activity == _topk_mean(enabled_tiles_norm, 3)
        a == mcfg.ema_alpha
        e == m.ema_activity
        ema == frac(a[1] * motion_instant_activity[1] * e[2]
                      + (a[2] - a[1]) * e[1] * motion_instant_activity[2],
                    a[2] * motion_instant_activity[2] * e[2])
        no_motion_candidate ==
            motion_instant_top1[1]
                < mcfg.no_motion_threshold * motion_instant_top1[2]
        with_grace == _resolve_video_state_with_grace(
                          m.no_motion_votes, ts, no_motion_candidate)
        motion_state ==
            IF with_grace.state = "NO_MOTION" THEN "NO_MOTION"
            ELSE IF ema[1] < mcfg.low_activity_threshold * ema[2]
            THEN "LOW_ACTIVITY"
            ELSE "MOTION"
    IN  IF all_tiles_disabled
        THEN [ mon |-> all_tiles_disabled_reset(m),
               all_tiles_disabled |-> TRUE,
               video_state |-> <<"ALL_TILES_DISABLED">>,
               base |-> "", candidate |-> FALSE, top1 |-> <<0, 1>>,
               overall_state |-> S_OK,
               overall_reasons |-> <<"all_tiles_disabled">> ]
        ELSE [ mon |-> [m EXCEPT !.ema_activity = ema,
                                 !.no_motion_votes = with_grace.votes],
               all_tiles_disabled |-> FALSE,
               video_state |-> <<motion_state, "_", audio_suffix(audio)>>,
               base |-> motion_state, candidate |-> no_motion_candidate,
               top1 |-> motion_instant_top1,
               overall_state |-> overall(motion_state).state,
               overall_reasons |-> overall(motion_state).reasons ]

\* _process_frame lines 626-716 and set_latest (_run line 437): the level is
\* read again, the tick is classified, the payload built, the recorder fed
\* unless every tile is disabled, and the payload published.  The recorder
\* raises where update opens a writer (cv2.VideoWriter).
Finish(codecs, raises) ==
    /\ mon.pc = "analysed"
    /\ LET ts == mon.t0[1]
           audio == get_level
           c == classify(mon, ts, audio)
           opens == /\ cfg.enabled
                    /\ _state_matches_trigger(c.video_state)
                    /\ rec.writer = None
                    /\ ~(/\ cfg.cooldown_seconds > 0
                         /\ ts - rec.last_start_ts < cfg.cooldown_seconds)
       IN  /\ raises => (~c.all_tiles_disabled /\ opens)
           /\ IF ~c.all_tiles_disabled /\ ~raises
              THEN UpdateCall(ts - now, c.video_state, codecs)
              ELSE UNCHANGED rec_vars
           /\ mon' = [c.mon EXCEPT !.pc = "idle",
                                   !.prev_state = c.video_state,
                                   !.tiles = <<>>]
           /\ set_latest(_status_payload(
                  ts, c.video_state, mon.rows, mon.cols,
                  tiles_for_json(mon.tiles, mon.disabled), c.overall_state))
           /\ pub' = [Published(IF c.all_tiles_disabled
                                THEN "all_tiles_disabled" ELSE "status",
                                <<S_OK, <<"ok">> >>, FALSE, c.overall_reasons,
                                IF raises
                                THEN << <<"recorder_failed: ", "message">> >>
                                ELSE <<>>,
                                audio_of_tick(mon.audio, audio))
                        EXCEPT !.fed = ~c.all_tiles_disabled,
                               !.frame = mon.prev_gray,
                               !.prev = mon.prev_gray,
                               !.base = c.base,
                               !.candidate = c.candidate,
                               !.top1 = c.top1,
                               !.log = IF c.all_tiles_disabled THEN <<>>
                                       ELSE Append(pub.log,
                                                   [ts |-> ts,
                                                    vote |-> c.candidate])]
    /\ UNCHANGED <<history_seconds, grid_rows, grid_cols, disabled_tiles,
                   clock, gp>>
    /\ UNCHANGED <<mcfg, trig_vars, aud_vars, app_vars>>

\* The monitor constructed and not started.
MonIdle ==
    /\ mcfg \in { c \in MonitorConfigs :
                    /\ c.no_motion_grace_period_seconds = 0
                    /\ c.no_motion_grace_required_ratio = <<1, 1>> }
    /\ mon = MonitorNew
    /\ pub = PubNone

\* main.py after its set-up: the shared region is ui.initial_region of the
\* configuration (config.py line 56 by default), no quit asked, the quit
\* watcher polling, no request served and no tick begun.
\* Observation: n flips at every request served, req and resp are the
\* latest request and its answer, changed the settings the request gave to
\* on_settings_changed, put the list of the latest PUT /tiles accepted,
\* wrote the region written last, by POST /ui/region or by the overlay, and
\* the time of the write, ret the value that get_payload returned last with
\* the fields of the store at that time (kept when a caller compares what
\* it is given: watch), held the containers of that value that are the
\* store's own objects, and touched the containers of the store that were
\* written through a value it has handed out.  alive holds the threads
\* started and not ended, spawned counts the threads started, and call is
\* the latest start or stop call, with whether it returned at its guard.
AppNew ==
    [ region |-> Rect(0, 0, 800, 600),
      quit_flag |-> FALSE,
      watcher |-> "polling",
      n |-> 0,
      req |-> None,
      resp |-> None,
      changed |-> <<>>,
      put |-> None,
      wrote |-> None,
      watch |-> FALSE,
      ret |-> None,
      held |-> None,
      touched |-> {},
      alive |-> {},
      spawned |-> 0,
      call |-> None ]

\* No request, no overlay event and no quit.
AppIdle == app = AppNew

\* No direct call of _state_matches_trigger.
NotMatched == [called |-> FALSE, state |-> <<>>, result |-> FALSE]

\* No direct call of _edges or _tile_means.
NotTiled ==
    [ called |-> "none", returned |-> FALSE, size |-> 0, parts |-> 0,
      edges |-> <<>>, diff |-> <<>>, rows |-> 0, cols |-> 0, out |-> <<>> ]

\* The recorder constructed, disabled, and never called.
RecOff ==
    /\ cfg \in { c \in RecorderConfigs :
                   ~c.enabled /\ c.clip_seconds = 1 /\ c.cooldown_seconds = 0
                   /\ c.fps = <<1, 2>> /\ c.stop_grace_seconds = 0 }
    /\ rec = RecorderInit
    /\ now = 0
    /\ nupd = 0
    /\ last = NoCall
    /\ start_ts = None
    /\ left_at = None
    /\ run_starts = 0

\* The recorder, the meter and the trigger probe left alone.
RecIdle ==
    /\ RecOff
    /\ matched = NotMatched
    /\ tiled = NotTiled
    /\ AppIdle
    /\ AudioIdle
    /\ MonIdle

StoreNext ==
    \/ \E payload \in StorePayloads(clock) : SetLatest(payload)
    \/ \E rows \in GridArgs, cols \in GridArgs : SetGrid(rows, cols)
    \/ \E disabled \in DisabledLists : SetDisabledTiles(disabled)
    \/ GetPayload_get_latest
    \/ GetPayload_get_disabled_tiles
    \/ GetPayload_read_grid_rows
    \/ GetPayload_read_grid_cols
    \/ GetPayload_return

StoreOnlyInit ==
    /\ history_seconds \in HistorySeconds
    /\ history_seconds = 2
    /\ \E rows \in GridArgs, cols \in GridArgs :
           StoreInit(history_seconds, rows, cols)
    /\ RecIdle

SpecStore == StoreOnlyInit /\ [][StoreNext]_vars

HistoryNext ==
    \/ Tick
    \/ \E payload \in TimedPayloads : SetLatest(payload)
    \/ GetHistory

HistoryInit ==
    /\ history_seconds \in HistorySeconds
    /\ StoreInit(history_seconds, 1, 1)
    /\ RecIdle

SpecHistory == HistoryInit /\ [][HistoryNext]_vars

----------------------------------------------------------------------------
(* The recorder on its own.                                                *)

RecNext ==
    \/ \E dt \in 0..MaxDt, state \in RecorderStates, codecs \in Codecs :
           Update(dt, state, codecs)
    \/ WriteFrame
    \/ Stop

\* The store left alone.
StoreIdle == StoreInit(2, 1, 1)

RecOnlyInit ==
    /\ RecInit
    /\ matched = NotMatched
    /\ tiled = NotTiled
    /\ AppIdle
    /\ AudioIdle
    /\ MonIdle
    /\ StoreIdle

SpecRec == RecOnlyInit /\ [][RecNext]_vars

----------------------------------------------------------------------------
(* The trigger match on its own: _state_matches_trigger called with any    *)
(* state, under a trigger_state with or without a comma.                   *)

\* f"{motion_state}_{suffix}": the states of the monitor have three tokens.
MaxStateLen == 3

Tokens == { "NO_MOTION", "LOW_ACTIVITY", "MOTION", "_", "X", "NO_AUDIO" }

\* The states given to _state_matches_trigger: every str of at most
\* MaxStateLen tokens, the empty str included.
ProbeStates == UNION { [1..n -> Tokens] : n \in 0..MaxStateLen }

S_NO_MOTION_LOW_ACTIVITY == <<"NO_MOTION", ",", "LOW_ACTIVITY">>

\* recording.trigger_state of the configuration.
TriggerStates == { S_NO_MOTION, S_NO_MOTION_LOW_ACTIVITY }

TriggerInit ==
    /\ cfg \in { c \in [ enabled : {TRUE}, trigger_state : TriggerStates,
                         clip_seconds : {1}, cooldown_seconds : {0},
                         fps : { <<1, 2>> }, stop_grace_seconds : {0} ] : TRUE }
    /\ rec = RecorderInit
    /\ now = 0
    /\ nupd = 0
    /\ last = NoCall
    /\ start_ts = None
    /\ left_at = None
    /\ run_starts = 0
    /\ StoreIdle
    /\ matched = NotMatched
    /\ tiled = NotTiled
    /\ AppIdle
    /\ AudioIdle
    /\ MonIdle

MatchState(state) ==
    /\ matched' = [called |-> TRUE, state |-> state,
                   result |-> _state_matches_trigger(state)]
    /\ UNCHANGED <<tiled, not_trig_vars>>

TriggerNext == \E state \in ProbeStates : MatchState(state)

SpecTrigger == TriggerInit /\ [][TriggerNext]_vars

\* str.split(sep) for a one-token separator.
RECURSIVE split(_, _)
split(s, sep) ==
    IF \E i \in 1..Len(s) : s[i] = sep
    THEN LET i == CHOOSE i \in 1..Len(s) :
                      s[i] = sep /\ \A j \in 1..(i - 1) : s[j] # sep
         IN  <<SubSeq(s, 1, i - 1)>> \o split(SubSeq(s, i + 1, Len(s)), sep)
    ELSE <<s>>

\* The match as the specification states it: trigger_state is split on
\* commas, and the state equals a prefix or begins with it and "_".
trigger_matches(trigger_state, state) ==
    \E i \in 1..Len(split(trigger_state, ",")) :
        LET T == split(trigger_state, ",")[i]
        IN  state = T \/ startswith(state, T \o <<"_">>)

\* C11: a state matches the trigger iff it equals one of the comma-separated
\* prefixes of trigger_state or begins with one of them followed by "_".
C11_TriggerSplitOnCommas ==
    matched.called =>
        (matched.result <=> trigger_matches(cfg.trigger_state, matched.state))

----------------------------------------------------------------------------
(* The audio meter on its own: the thread started under any configuration, *)
(* then polled with any peak.                                              *)

AudioNext ==
    \/ \E module_ok \in BOOLEAN, opens \in BOOLEAN :
           AudioStart(module_ok, opens)
    \/ \E peak \in Peaks, dt \in PollDts : AudioPoll(peak, dt)
    \/ AudioFail

AudioInit ==
    /\ acfg \in AudioConfigs
    /\ aud = AudioNew
    /\ RecOff
    /\ matched = NotMatched
    /\ tiled = NotTiled
    /\ AppIdle
    /\ StoreIdle
    /\ MonIdle

SpecAudio == AudioInit /\ [][AudioNext]_vars

\* The flag published by the latest poll against the one published before
\* it, as a Schmitt trigger with hold time over the mean of the peaks of
\* the last smooth_samples polls.
Hysteretic ==
    LET n == Len(aud.heard)
        s == sum(aud.heard)
        detected == aud.level.detected
    IN  /\ (~aud.was /\ detected) =>
               (s >= acfg.on_threshold * n /\ aud.held)
        /\ (aud.was /\ ~detected) =>
               (s <= acfg.off_threshold * n /\ aud.held)
        /\ (acfg.off_threshold * n < s /\ s < acfg.on_threshold * n) =>
               detected = aud.was

\* C19: for every enabled backend the published detected flag is hysteretic
\* over the smoothed peak: false->true only with smooth_peak >= on_threshold
\* and hold_ms passed since its last change, true->false only with
\* smooth_peak <= off_threshold and hold_ms passed, unchanged otherwise, so a
\* smoothed peak strictly between the thresholds never changes it.
C19_DetectedIsHysteretic ==
    (acfg.enabled /\ aud.polled) => Hysteretic

\* The same for the pycaw backend alone.
PycawIsHysteretic ==
    (acfg.enabled /\ acfg.backend = "pycaw" /\ aud.polled) => Hysteretic

----------------------------------------------------------------------------
(* The monitor loop with its store, its recorder and its audio meter, on a *)
(* 1x2 grid.  Three specifications: the ticks with their failures, the     *)
(* mask and the recorder; the grace window under every configuration; the  *)
(* ticks against the polls of the audio thread.                            *)

\* The masks the callers of the server set: no tile, the first, both.
MaskLists == { <<>>, <<T_Int(0)>>, <<T_Int(0), T_Int(1)>> }

\* A frame of the previous shape, every tile as active as the others.
AnalyseAny ==
    \E shape \in FrameShapes, level \in TileLevels :
        Analyse(shape, [i \in 1..(grid_rows * grid_cols) |-> level])

\* The mask is read once a tick, in its first step: set between two ticks.
SetMask ==
    \E disabled \in MaskLists : mon.pc = "idle" /\ SetDisabledTiles(disabled)

\* A recorder that records NO_MOTION: two frames a clip, no cooldown.
MonitorInit ==
    /\ mcfg \in { c \in MonitorConfigs :
                    /\ c.no_motion_grace_period_seconds = 1
                    /\ c.no_motion_grace_required_ratio = <<1, 2>> }
    /\ mon = MonitorNew
    /\ pub = PubNone
    /\ acfg \in { c \in AudioConfigs :
                    c.enabled /\ c.backend = "pyaudiowpatch"
                    /\ c.smooth_samples = 1 }
    /\ aud = AudioNew
    /\ StoreInit(2, 1, 2)
    /\ RecInit
    /\ cfg.enabled /\ cfg.clip_seconds = 1 /\ cfg.cooldown_seconds = 0
    /\ cfg.fps = <<3, 2>> /\ cfg.stop_grace_seconds = 0
    /\ matched = NotMatched
    /\ tiled = NotTiled
    /\ AppIdle

MonitorNext ==
    \/ Tick
    \/ RegionRaises
    \/ \E where \in {"grab", "process"} : TickRaises(where)
    \/ \E shape \in FrameShapes : WarmUp(shape)
    \/ AnalyseAny
    \/ \E raises \in BOOLEAN : Finish({"mp4v", "XVID"}, raises)
    \/ SetMask
    \/ AudioStart(TRUE, TRUE)

SpecMonitor == MonitorInit /\ [][MonitorNext]_vars

\* The grace window: every configuration of the classifier, the recorder
\* disabled, the audio thread not yet scheduled.
VotesInit ==
    /\ mcfg \in MonitorConfigs
    /\ mon = MonitorNew
    /\ pub = PubNone
    /\ AudioIdle
    /\ StoreInit(2, 1, 2)
    /\ RecOff
    /\ matched = NotMatched
    /\ tiled = NotTiled
    /\ AppIdle

VotesNext ==
    \/ Tick
    \/ \E shape \in FrameShapes : WarmUp(shape)
    \/ AnalyseAny
    \/ Finish({}, FALSE)
    \/ SetMask

SpecVotes == VotesInit /\ [][VotesNext]_vars

\* The ticks against the audio thread, started and polled between any two
\* steps of a tick.
LabelInit ==
    /\ mcfg \in { c \in MonitorConfigs :
                    /\ c.no_motion_grace_period_seconds = 0
                    /\ c.no_motion_grace_required_ratio = <<1, 1>> }
    /\ mon = MonitorNew
    /\ pub = PubNone
    /\ acfg \in { c \in AudioConfigs :
                    c.enabled /\ c.backend = "pyaudiowpatch"
                    /\ c.smooth_samples = 1 }
    /\ aud = AudioNew
    /\ StoreInit(2, 1, 2)
    /\ RecOff
    /\ matched = NotMatched
    /\ tiled = NotTiled
    /\ AppIdle

LabelNext ==
    \/ Tick
    \/ WarmUp("A")
    \/ AnalyseAny
    \/ Finish({}, FALSE)
    \/ \E module_ok \in BOOLEAN : AudioStart(module_ok, TRUE)
    \/ \E peak \in Peaks : AudioPoll(peak, 0)

SpecLabel == LabelInit /\ [][LabelNext]_vars

----------------------------------------------------------------------------
(* The shutdown: POST /quit (server/server.py), the quit watcher of        *)
(* main.py, MonitorLoop.stop and the end of MonitorLoop._run.              *)

\* What a route answers: its status code and the JSON body.
Response(route, status, body) ==
    [route |-> route, status |-> status, body |-> body]

\* A request served: the request, its answer, and the settings it gave to
\* on_settings_changed (main.py line 103 writes them to the configuration
\* file).
Served(route, body, status, answer, changed) ==
    [ app EXCEPT !.n = 1 - @,
                 !.req = [route |-> route, body |-> body],
                 !.resp = Response(route, status, answer),
                 !.changed = changed ]

\* StatusStore.request_quit
request_quit == [ui EXCEPT !.quit_requested = TRUE]

\* StatusStore.quit_requested
quit_requested == ui.quit_requested

\* POST /quit: the flag is set and {"ok": true} answered.
PostQuit ==
    /\ ui' = request_quit
    /\ app' = Served("POST /quit", <<>>, 200, <<"ok">>, <<>>)
    /\ UNCHANGED <<rec_vars, store_vars, trig_vars, aud_vars, mon_vars>>

\* quit_watcher lines 235-245: one round of the polling loop.  The loop
\* ends when quit_flag is set; a quit asked of the store sets quit_flag and
\* ends it; otherwise the watcher waits 0.1 s and polls again.
QuitWatcherPoll ==
    /\ app.watcher = "polling"
    /\ app' = IF app.quit_flag THEN [app EXCEPT !.watcher = "stopping"]
              ELSE IF quit_requested
                   THEN [app EXCEPT !.quit_flag = TRUE,
                                    !.watcher = "stopping"]
                   ELSE app
    /\ UNCHANGED <<ui, rec_vars, store_vars, trig_vars, aud_vars, mon_vars>>

\* MonitorLoop.stop: the stop event of the loop is set and the meter's stop
\* called, which sets the stop event of the audio thread.
MonitorLoop_stop ==
    /\ mon' = [mon EXCEPT !.stop = TRUE]
    /\ aud' = [aud EXCEPT !.stop = TRUE]

\* quit_watcher lines 247-251: loop.stop(), then loop.join(timeout=1.0),
\* which returns when the monitor thread has ended or the second is over.
QuitWatcherStop ==
    /\ app.watcher = "stopping"
    /\ MonitorLoop_stop
    /\ app' = [app EXCEPT !.watcher = "done"]
    /\ UNCHANGED <<ui, mcfg, pub, acfg, rec_vars, store_vars, trig_vars>>

\* _run lines 423 and 446-457: between two ticks the stop event is found
\* set, the loop ends and the finally clause runs: the recorder is stopped,
\* capturer.close_thread_resources raises AttributeError, which is
\* swallowed (ScreenCapturer has no such method: the mss instance of the
\* thread stays), and the meter is stopped.
MonitorExits ==
    /\ mon.pc = "idle"
    /\ mon.stop
    /\ mon' = [mon EXCEPT !.pc = "dead"]
    /\ StopCall
    /\ aud' = [aud EXCEPT !.stop = TRUE]
    /\ UNCHANGED <<mcfg, pub, acfg, store_vars, trig_vars, app_vars>>

\* A recorder that records NO_MOTION, the meter running on pycaw, and the
\* monitor ticking against the routes and the quit watcher.
QuitInit ==
    /\ mcfg \in { c \in MonitorConfigs :
                    /\ c.no_motion_grace_period_seconds = 0
                    /\ c.no_motion_grace_required_ratio = <<1, 1>> }
    /\ mon = MonitorNew
    /\ pub = PubNone
    /\ acfg \in { c \in AudioConfigs :
                    c.enabled /\ c.backend = "pycaw"
                    /\ c.smooth_samples = 1 }
    /\ aud = AudioNew
    /\ StoreInit(2, 1, 1)
    /\ RecInit
    /\ cfg.enabled /\ cfg.clip_seconds = 1 /\ cfg.cooldown_seconds = 0
    /\ cfg.fps = <<3, 2>> /\ cfg.stop_grace_seconds = 0
    /\ matched = NotMatched
    /\ tiled = NotTiled
    /\ AppIdle

QuitNext ==
    \/ Tick
    \/ \E shape \in FrameShapes : WarmUp(shape)
    \/ AnalyseAny
    \/ Finish({"mp4v", "XVID"}, FALSE)
    \/ MonitorExits
    \/ AudioStart(TRUE, TRUE)
    \/ PostQuit
    \/ QuitWatcherPoll
    \/ QuitWatcherStop

\* Weak fairness of the last step of a tick, with its enabling condition
\* written out: the step is possible exactly when a frame is analysed.
FinishFair ==
    \/ []<>(mon.pc # "analysed")
    \/ []<><<Finish({"mp4v", "XVID"}, FALSE)>>_vars

\* The watcher and the monitor are threads of their own: a step of theirs
\* that stays possible is taken.
SpecQuit ==
    /\ QuitInit
    /\ [][QuitNext]_vars
    /\ WF_vars(QuitWatcherPoll)
    /\ WF_vars(QuitWatcherStop)
    /\ WF_vars(MonitorExits)
    /\ FinishFair

\* The watcher has signalled both stops and the monitor thread has ended
\* with no recorder session left open.
Stopped ==
    /\ app.watcher = "done"
    /\ mon.stop /\ aud.stop
    /\ mon.pc = "dead"
    /\ rec.writer = None

\* After a quit request the threads are stopped (the part of C21 that the
\* code keeps).
QuitStopsThreads == quit_requested ~> Stopped

\* C21: after request_quit (POST /quit) the quit watcher sees the flag and
\* signals the stop of the monitor loop and of the audio meter; the monitor
\* thread then ends, leaving no recorder session with an open writer and
\* the capturer's thread resources (the mss instance of the monitor
\* thread) closed.
C21_QuitReleasesEverything == quit_requested ~> (Stopped /\ ~mon.sct)

----------------------------------------------------------------------------
(* The routes of server/server.py that change or read the settings.  A     *)
(* JSON value carries its type as the tile values do; body.get of a field  *)
(* that is missing gives None.  The handlers run one at a time on the      *)
(* event loop of the server.                                               *)

T_False == [t |-> "bool", v |-> 0]

\* isinstance(v, int): a bool is an int.
is_int(value) == value.t \in {"int", "bool"}

\* isinstance(v, bool)
is_bool(value) == value.t = "bool"

\* The {"error": ...} body of a 400 answer.
Error == <<"error">>

\* A JSON string with its text, and a value that is not a string, for the
\* field that _parse_bool reads.
Text(s) == [t |-> "str", v |-> 0, s |-> s]
NoText(value) == [t |-> value.t, v |-> value.v, s |-> <<>>]

\* str.lower
lower(s) ==
    [ i \in 1..Len(s) |-> CASE s[i] = "Yes" -> "yes"
                            [] s[i] = "OFF" -> "off"
                            [] OTHER -> s[i] ]

\* server.py _parse_bool: None for a value that is no boolean.
_parse_bool(value) ==
    IF is_bool(value) THEN <<value.v = 1>>
    ELSE IF value.t = "str"
         THEN LET v == lower(strip(value.s))
              IN  IF v \in { <<"1">>, <<"true">>, <<"yes">>, <<"on">> }
                  THEN <<TRUE>>
                  ELSE IF v \in { <<"0">>, <<"false">>, <<"no">>, <<"off">> }
                       THEN <<FALSE>>
                       ELSE None
         ELSE None

\* StatusStore.set_show_tile_numbers
set_show_tile_numbers(enabled) == [ui EXCEPT !.show_tile_numbers = enabled]

\* StatusStore.set_show_overlay_state
set_show_overlay_state(enabled) == [ui EXCEPT !.show_overlay_state = enabled]

\* A set_region that builds the fields anew.
set_region_resets(x, y, width, height) ==
    [ UiInit(ui.show_tile_numbers) EXCEPT
          !.region = Rect(x, y, max(1, width), max(1, height)) ]

\* StatusStore.set_region.  The store of main.py is given no monitors, so
\* the search for the monitor of the region's centre finds none.
set_region(x, y, width, height) ==
    [ui EXCEPT !.region = Rect(x, y, max(1, width), max(1, height))]

\* The region that GET /ui reports.
ui_region(settings) ==
    Rect(settings.region_x, settings.region_y, settings.region_width,
         settings.region_height)

\* main.py get_region, the callable the monitor loop reads its region with.
get_region == app.region

\* PUT /tiles: a disabled_tiles field that is missing is the empty list.
PutTiles(body) ==
    LET raw == IF body.present THEN body.raw ELSE List(<<>>)
        ok == /\ raw.is_list
              /\ \A i \in 1..Len(raw.items) : is_int(raw.items[i])
    IN  /\ disabled_tiles' = IF ok THEN cleaned(raw.items) ELSE disabled_tiles
        /\ app' = IF ok
                  THEN [ Served("PUT /tiles", body, 200, cleaned(raw.items),
                                <<>>) EXCEPT !.put = <<raw.items>> ]
                  ELSE Served("PUT /tiles", body, 400, Error, <<>>)
        /\ UNCHANGED <<ui, history_seconds, latest, history, grid_rows,
                       grid_cols, clock, gp>>
        /\ UNCHANGED <<rec_vars, trig_vars, aud_vars, mon_vars>>

\* GET /tiles
GetTiles ==
    /\ app' = Served("GET /tiles", <<>>, 200, disabled_tiles, <<>>)
    /\ UNCHANGED <<ui, rec_vars, store_vars, trig_vars, aud_vars, mon_vars>>

\* GET /ui
GetUi ==
    /\ app' = Served("GET /ui", <<>>, 200, get_ui_settings, <<>>)
    /\ UNCHANGED <<ui, rec_vars, store_vars, trig_vars, aud_vars, mon_vars>>

\* POST /ui/grid
PostUiGrid(body) ==
    LET rows == body.rows
        cols == body.cols
        ok == is_int(rows) /\ is_int(cols) /\ rows.v > 0 /\ cols.v > 0
    IN  /\ grid_rows' = IF ok THEN max(1, rows.v) ELSE grid_rows
        /\ grid_cols' = IF ok THEN max(1, cols.v) ELSE grid_cols
        /\ UNCHANGED <<ui, history_seconds, latest, history, disabled_tiles,
                       clock, gp>>
        /\ app' = IF ok
                  THEN Served("POST /ui/grid", body, 200, get_ui_settings',
                              <<"grid_rows", "grid_cols">>)
                  ELSE Served("POST /ui/grid", body, 400, Error, <<>>)
        /\ UNCHANGED <<rec_vars, trig_vars, aud_vars, mon_vars>>

\* POST /ui/region
PostUiRegion(body) ==
    LET ok == /\ \A k \in {"x", "y", "width", "height"} : is_int(body[k])
              /\ body.width.v > 0 /\ body.height.v > 0
    IN  /\ ui' = IF ok THEN set_region(body.x.v, body.y.v, body.width.v,
                                       body.height.v)
                 ELSE ui
        /\ UNCHANGED store_vars
        /\ app' = IF ok
                  THEN [ Served("POST /ui/region", body, 200,
                                get_ui_settings',
                                <<"region_x", "region_y", "region_width",
                                  "region_height">>)
                           EXCEPT !.wrote =
                               [ region |-> Rect(body.x.v, body.y.v,
                                                 body.width.v, body.height.v),
                                 at |-> clock ] ]
                  ELSE Served("POST /ui/region", body, 400, Error, <<>>)
        /\ UNCHANGED <<rec_vars, trig_vars, aud_vars, mon_vars>>

\* POST /ui/tile-numbers
PostUiTileNumbers(body) ==
    LET ok == is_bool(body.enabled)
    IN  /\ ui' = IF ok THEN set_show_tile_numbers(body.enabled.v = 1) ELSE ui
        /\ UNCHANGED store_vars
        /\ app' = IF ok
                  THEN Served("POST /ui/tile-numbers", body, 200,
                              get_ui_settings', <<"show_tile_numbers">>)
                  ELSE Served("POST /ui/tile-numbers", body, 400, Error, <<>>)
        /\ UNCHANGED <<rec_vars, trig_vars, aud_vars, mon_vars>>

\* POST /ui/state-overlay
PostUiStateOverlay(body) ==
    LET enabled == _parse_bool(body.enabled)
    IN  /\ ui' = IF enabled # None THEN set_show_overlay_state(enabled[1])
                 ELSE ui
        /\ UNCHANGED store_vars
        /\ app' = IF enabled # None
                  THEN Served("POST /ui/state-overlay", body, 200,
                              get_ui_settings', <<"show_overlay_state">>)
                  ELSE Served("POST /ui/state-overlay", body, 400, Error,
                              <<>>)
        /\ UNCHANGED <<rec_vars, trig_vars, aud_vars, mon_vars>>

\* main.py on_region_change: the overlay has been moved or resized.
OnRegionChange(r) ==
    /\ app' = [app EXCEPT !.region = r,
                          !.wrote = [region |-> r, at |-> clock]]
    /\ UNCHANGED <<ui, rec_vars, store_vars, trig_vars, aud_vars, mon_vars>>

\* The bodies of POST /ui/region.
RegionBodies ==
    [ x : {T_Int(5)}, y : {T_Int(5), T_None},
      width : {T_Int(100), T_Int(0)}, height : {T_Int(100), T_Str} ]

\* The regions the overlay emits.
OverlayRegions == { Rect(0, 0, 800, 600), Rect(10, 10, 200, 200) }

\* The region: its two writers, GET /ui, and ticks that grab a frame of a
\* new shape each.
RegionNext ==
    \/ Tick
    \/ \E shape \in FrameShapes : WarmUp(shape)
    \/ \E body \in RegionBodies : PostUiRegion(body)
    \/ \E r \in OverlayRegions : OnRegionChange(r)
    \/ GetUi

RegionInit ==
    /\ MonIdle
    /\ AudioIdle
    /\ StoreInit(2, 1, 1)
    /\ RecOff
    /\ matched = NotMatched
    /\ tiled = NotTiled
    /\ AppIdle

SpecRegion == RegionInit /\ [][RegionNext]_vars

\* C22: there is one capture region: once it has been written, by a POST
\* /ui/region that was accepted or by the overlay, the region written last
\* is the one the monitor loop reads and every later tick grabs, and the
\* one GET /ui reports.
C22_OneSharedRegion ==
    app.wrote # None =>
        /\ get_region = app.wrote.region
        /\ ui_region(get_ui_settings) = app.wrote.region
        /\ (mon.t0 # None /\ mon.t0[1] > app.wrote.at) =>
               mon.region = <<app.wrote.region>>

\* The bodies of the other routes.
GridBodies ==
    [ rows : {T_Int(2), T_Int(0), T_True, T_None}, cols : {T_Int(1), T_Str} ]

TilesBodies ==
    { [present |-> FALSE, raw |-> NotList],
      [present |-> TRUE, raw |-> NotList] }
    \cup { [present |-> TRUE, raw |-> List(l)] : l \in DisabledLists }

TileNumbersBodies == [ enabled : {T_True, T_False, T_Int(1), T_None} ]

OverlayBodies ==
    [ enabled : { NoText(T_True), NoText(T_False), NoText(T_None),
                  NoText(T_Int(1)), Text(<<" ", "Yes">>), Text(<<"OFF">>),
                  Text(<<"maybe">>) } ]

\* The quit flag against the other operations of the store: a request of
\* each route that writes, with a body that is accepted, set_latest, and
\* the reads.
QuitFlagNext ==
    \/ PostQuit
    \/ SetLatest(_error_payload(clock))
    \/ PostUiGrid([rows |-> T_Int(2), cols |-> T_Int(1)])
    \/ PostUiRegion([x |-> T_Int(5), y |-> T_Int(5), width |-> T_Int(100),
                     height |-> T_Int(100)])
    \/ PutTiles([present |-> TRUE, raw |-> List(<<T_Int(1)>>)])
    \/ GetUi
    \/ GetTiles
    \/ GetHistory
    \/ GetPayload_get_latest
    \/ GetPayload_get_disabled_tiles
    \/ GetPayload_read_grid_rows
    \/ GetPayload_read_grid_cols
    \/ GetPayload_return

SpecQuitFlag == RegionInit /\ [][QuitFlagNext]_vars

\* C23: quit_requested is false at first, and once true it stays true
\* whatever operation of the store follows: no operation resets it.
C23_QuitRequestedMonotonic ==
    /\ ~quit_requested
    /\ [][quit_requested => quit_requested']_vars

\* A quit was asked, and the store has served another route since.
C23_Witness ==
    /\ quit_requested
    /\ app.req.route = "POST /ui/region"
    /\ Len(history) = MaxHistory
    /\ disabled_tiles # <<>>

\* PUT /tiles and the readers of the mask: GET /tiles and get_payload.
TilesNext ==
    \/ \E body \in TilesBodies : PutTiles(body)
    \/ GetTiles
    \/ GetPayload_get_latest
    \/ GetPayload_get_disabled_tiles
    \/ GetPayload_read_grid_rows
    \/ GetPayload_read_grid_cols
    \/ GetPayload_return

SpecTiles == RegionInit /\ [][TilesNext]_vars

\* A list of JSON ints.
ListOfInts(x) == \A i \in 1..Len(x) : x[i].t = "int"

StrictlyIncreasing(l) ==
    \A i \in 1..Len(l) : l[i] >= 0 /\ (i > 1 => l[i - 1] < l[i])

\* C24: the stored mask is at all times a strictly increasing list of
\* non-negative ints; after a PUT /tiles of a list of ints x was accepted,
\* and until another is, the mask, the answer of that PUT and the answer
\* of every GET /tiles hold exactly the non-negative elements of x; and an
\* accepted PUT of the list that was accepted last leaves the store as it
\* is.
C24_TilesRoundTrip ==
    /\ [](/\ StrictlyIncreasing(disabled_tiles)
          /\ (app.put # None /\ ListOfInts(app.put[1])) =>
                 /\ { disabled_tiles[i] : i \in 1..Len(disabled_tiles) }
                      = { app.put[1][i].v :
                            i \in { j \in 1..Len(app.put[1]) :
                                      app.put[1][j].v >= 0 } }
                 /\ app.resp.status = 200 => app.resp.body = disabled_tiles)
    /\ [][(/\ app'.n # app.n
           /\ app'.req.route = "PUT /tiles"
           /\ app'.resp.status = 200
           /\ app'.put = app.put)
          => UNCHANGED <<store_vars, ui>>]_vars

\* An unsorted list with a negative element and a repeated one was put, and
\* GET /tiles has answered since.
C24_Witness ==
    /\ app.put = << <<T_Int(3), T_Int(0)>> >>
    /\ app.req.route = "GET /tiles"
    /\ app.resp.body = <<0, 3>>

\* The five routes that validate a body, with GET /ui.
HttpNext ==
    \/ \E body \in TilesBodies : PutTiles(body)
    \/ \E body \in GridBodies : PostUiGrid(body)
    \/ \E body \in RegionBodies : PostUiRegion(body)
    \/ \E body \in TileNumbersBodies : PostUiTileNumbers(body)
    \/ \E body \in OverlayBodies : PostUiStateOverlay(body)
    \/ GetUi

SpecHttp == RegionInit /\ [][HttpNext]_vars

\* A body that fails validation: a field is missing or of the wrong JSON
\* type (an int is no bool, a bool no int, a string neither), a list holds
\* an element that is no int, or rows, cols, width or height is not
\* positive.
Invalid(req) ==
    LET int(value) == value.t = "int"
    IN  CASE req.route = "PUT /tiles" ->
                 \/ ~req.body.present
                 \/ ~req.body.raw.is_list
                 \/ ~ListOfInts(req.body.raw.items)
          [] req.route = "POST /ui/grid" ->
                 ~(/\ int(req.body.rows) /\ int(req.body.cols)
                   /\ req.body.rows.v > 0 /\ req.body.cols.v > 0)
          [] req.route = "POST /ui/region" ->
                 ~(/\ \A k \in {"x", "y", "width", "height"} :
                          int(req.body[k])
                   /\ req.body.width.v > 0 /\ req.body.height.v > 0)
          [] req.route \in {"POST /ui/tile-numbers",
                            "POST /ui/state-overlay"} ->
                 req.body.enabled.t # "bool"
          [] OTHER -> FALSE

\* The store and the settings callback are left alone by the request.
NoEffect == app'.changed = <<>> /\ UNCHANGED <<store_vars, ui>>

\* Every request answered 400 leaves the store as it is and calls no
\* on_settings_changed (the part of C25 that the code keeps).
RejectedHasNoEffect ==
    [][(app'.n # app.n /\ app'.resp.status = 400)
       => (app'.resp.body = Error /\ NoEffect)]_vars

\* C25: a request to PUT /tiles, POST /ui/grid, POST /ui/region, POST
\* /ui/tile-numbers or POST /ui/state-overlay whose body fails validation
\* is answered 400 with an error object, changes no field of the store and
\* calls no on_settings_changed.
C25_InvalidBodyRejected ==
    [][(app'.n # app.n /\ Invalid(app'.req))
       => (/\ app'.resp.status = 400
           /\ app'.resp.body = Error
           /\ NoEffect)]_vars

----------------------------------------------------------------------------
(* Properties of the monitor loop.  TickDone: the latest tick has run to   *)
(* its end, so latest, pub and the fields of mon describe that tick.       *)

TickDone == mon.pc = "idle" /\ mon.t0 # None

\* video.tiles of the latest payload is 0.0 (or None when zero = FALSE) on
\* the tiles the tick found enabled and None on those it found disabled.
TilesOfTick(zero) ==
    LET tiles == latest.video.tiles.items
    IN  /\ Len(tiles) = mon.rows * mon.cols
        /\ \A i \in 1..Len(tiles) :
               tiles[i] = IF \E j \in 1..Len(mon.disabled) :
                                  mon.disabled[j] = i - 1
                          THEN T_None
                          ELSE IF zero THEN T_Float(0) ELSE T_None

\* C13: a tick that analysed a frame with no previous frame, or with one of
\* another shape, publishes video.state ERROR, overall NOT_OK with reasons
\* ['warming_up'], tiles 0.0 except the disabled ones (None); it keeps the
\* frame as the previous one, sets the EMA to 0, clears the votes and does
\* not feed the recorder.
C13_WarmUp ==
    (TickDone /\ pub.frame # None /\ pub.prev # pub.frame) =>
        /\ latest.video.state = Str(S_ERROR)
        /\ latest.overall_state = Str(S_NOT_OK)
        /\ pub.overall_reasons = <<"warming_up">>
        /\ TilesOfTick(TRUE)
        /\ mon.prev_gray = pub.frame
        /\ mon.ema_activity = <<0, 1>>
        /\ mon.no_motion_votes = <<>>
        /\ ~pub.fed

\* A warm-up on a change of shape, with one of the two tiles disabled.
C13_Witness ==
    /\ TickDone
    /\ pub.frame # None /\ pub.prev # None /\ pub.prev # pub.frame
    /\ mon.disabled = <<0>>

\* Every tile index of the grid the tick read is in the mask it read.
AllDisabled ==
    \A i \in 0..(mon.rows * mon.cols - 1) :
        \E j \in 1..Len(mon.disabled) : mon.disabled[j] = i

\* C14: a tick that is not a warm-up and finds every tile disabled publishes
\* video.state ALL_TILES_DISABLED without suffix, overall OK with reasons
\* ['all_tiles_disabled'] and every tile None; the EMA is 0, the votes are
\* cleared and the recorder is not updated.
C14_AllTilesDisabled ==
    (TickDone /\ pub.frame # None /\ pub.prev = pub.frame /\ AllDisabled) =>
        /\ latest.video.state = Str(<<"ALL_TILES_DISABLED">>)
        /\ latest.overall_state = Str(S_OK)
        /\ pub.overall_reasons = <<"all_tiles_disabled">>
        /\ TilesOfTick(FALSE)
        /\ mon.ema_activity = <<0, 1>>
        /\ mon.no_motion_votes = <<>>
        /\ ~pub.fed

\* Every tile disabled on a tick after a classified one, a clip being
\* recorded.
C14_Witness ==
    /\ TickDone
    /\ pub.frame # None /\ pub.prev = pub.frame /\ AllDisabled
    /\ nupd > 0
    /\ rec.writer # None

\* C15: in every payload the monitor publishes, overall.state is OK iff
\* video.state is ALL_TILES_DISABLED or begins with MOTION; a payload whose
\* base label is NO_MOTION or LOW_ACTIVITY has overall NOT_OK with reasons
\* ['no_motion_enabled_tiles'].
C15_OverallFollowsVideoState ==
    pub.kind # "none" =>
        LET s == latest.video.state.s
        IN  /\ latest.overall_state = Str(S_OK) <=>
                   (s = <<"ALL_TILES_DISABLED">> \/ startswith(s, <<"MOTION">>))
            /\ latest.overall_state \in { Str(S_OK), Str(S_NOT_OK) }
            /\ s[1] \in {"NO_MOTION", "LOW_ACTIVITY"} =>
                   /\ latest.overall_state = Str(S_NOT_OK)
                   /\ pub.overall_reasons = <<"no_motion_enabled_tiles">>

\* A LOW_ACTIVITY payload.
C15_Witness ==
    /\ pub.kind = "status"
    /\ latest.video.state.s[1] = "LOW_ACTIVITY"
    /\ latest.overall_state = Str(S_NOT_OK)

\* The votes of the classified ticks since the latest reset that are not
\* older than the grace period at the latest tick.
Window ==
    LET cutoff == mon.t0[1] - mcfg.no_motion_grace_period_seconds
    IN  SelectSeq(pub.log, LAMBDA v : v.ts >= cutoff)

\* motion_instant_top1 < no_motion_threshold at the latest tick.
BelowThreshold == pub.top1[1] < mcfg.no_motion_threshold * pub.top1[2]

C17_NoGraceNoMemory ==
    mcfg.no_motion_grace_period_seconds = 0 =>
        /\ mon.no_motion_votes = <<>>
        /\ (TickDone /\ pub.kind = "status") =>
               (pub.base = "NO_MOTION" <=> BelowThreshold)

\* A NO_MOTION tick straight after a tick that was above the threshold.
C17_Witness ==
    /\ mcfg.no_motion_grace_period_seconds = 0
    /\ TickDone /\ pub.kind = "status"
    /\ Len(pub.log) >= 2
    /\ ~pub.log[Len(pub.log) - 1].vote
    /\ pub.base = "NO_MOTION"

\* C18: a payload with base label NO_MOTION, LOW_ACTIVITY or MOTION carries
\* one suffix, that of the audio sample in its audio block: NOSOUNDHARDWARE
\* iff the sample is not available, else WITH_AUDIO iff it is detected, else
\* NO_AUDIO, however the audio thread's polls interleave with the tick.
C18_SuffixOfPublishedSample ==
    (TickDone /\ pub.kind = "status") =>
        LET s == latest.video.state.s
            a == pub.audio
        IN  /\ Len(s) = 3
            /\ s[1] = pub.base
            /\ s[1] \in {"NO_MOTION", "LOW_ACTIVITY", "MOTION"}
            /\ s[2] = "_"
            /\ s[3] = IF ~a.available THEN "NOSOUNDHARDWARE"
                      ELSE IF a.detected THEN "WITH_AUDIO" ELSE "NO_AUDIO"

\* The audio thread published another level between the tick's two reads.
C18_Witness ==
    /\ TickDone /\ pub.kind = "status"
    /\ mon.audio.available /\ pub.audio.available
    /\ mon.audio.detected # pub.audio.detected

\* C20: no exception raised in a tick (region fetch, grab, analysis) ends
\* the monitor thread; the tick publishes one error payload with capture
\* state ERROR, reason the message, video.state ERROR, stale true and
\* errors [message], and a recorder exception only adds recorder_failed to
\* the errors of the tick's payload.  (A reason that ends with the message
\* is taken as the message.)
C20_TickErrorsBecomePayloads ==
    /\ mon.pc # "dead"
    /\ pub.kind = "error" =>
           /\ pub.capture_state = S_ERROR
           /\ pub.capture_reason[Len(pub.capture_reason)] = "message"
           /\ latest.video.state = Str(S_ERROR)
           /\ pub.stale
           /\ pub.errors = <<pub.capture_reason>>
    /\ (pub.kind # "error" /\ pub.errors # <<>>) =>
           \/ pub.errors = << <<"recorder_failed: ", "message">> >>
           \/ pub.errors = << <<"warming_up">> >>

----------------------------------------------------------------------------
(* Properties of the recorder, checked under SpecRec.                      *)

\* The session that was active in the latest call has ended in it.
SessionEnded == last.active1 /\ rec.writer = None

\* The latest call wrote the last frame of the clip's frame budget.
BudgetExhausted == last.wrote = 1 /\ Len(rec.clip) = frame_budget(cfg)

\* When the state of the session left the trigger, as the latest call saw it.
LeftAt == IF last.left0 = None THEN now ELSE last.left0[1]

\* C5: with cooldown_seconds > 0, a session never starts less than
\* cooldown_seconds (in now_ts) after the previous session start, also when
\* the previous session has ended in between.
C5_CooldownBetweenStarts ==
    (cfg.cooldown_seconds > 0 /\ last.started /\ last.gap # None)
        => last.gap[1] >= cfg.cooldown_seconds

\* A second session starts exactly cooldown_seconds after the first, which
\* ended in the update that started it (its frame budget is one frame).
C5_Witness ==
    /\ cfg.cooldown_seconds > 0
    /\ frame_budget(cfg) = 1
    /\ last.started
    /\ last.gap = <<cfg.cooldown_seconds>>

\* C6: a call that finds no session active (an update whose check after
\* maybe_start sees no writer, a write_frame on an idle recorder) writes no
\* frame and creates no file.
C6_NoWriteWhileIdle ==
    /\ (last.op = "update" /\ ~last.active1)
           => (last.wrote = 0 /\ ~last.started)
    /\ (last.op = "write_frame" /\ ~last.active0)
           => (last.wrote = 0 /\ ~last.started)

\* An enabled recorder, idle after earlier clips, is given a matching state
\* and opens no writer (cooldown or codecs): nothing is written.
C6_Witness ==
    /\ cfg.enabled
    /\ last.op = "update"
    /\ last.match
    /\ ~last.active1
    /\ rec.created > 0
    /\ last.wrote = 0

\* C7 as stated: an update with a matching state on an active session never
\* stops the session.
C7_NeverStoppedWhileMatching ==
    (last.op = "update" /\ last.active1 /\ last.match) => rec.writer # None

\* C7 amended: a session ends only at shutdown (stop), in a non-matching
\* update at or after stop_grace_seconds from the update at which the state
\* left the trigger, or in the call that writes the last frame of the frame
\* budget max(1, round(clip_seconds * fps)).
C7_SessionEndsOnlyByGraceBudgetOrStop ==
    SessionEnded =>
        \/ last.op = "stop"
        \/ /\ last.op = "update"
           /\ ~last.match
           /\ last.wrote = 0
           /\ now >= LeftAt + cfg.stop_grace_seconds
        \/ BudgetExhausted

\* A session of more than one frame ends in an update whose state matches.
C7_Witness ==
    /\ last.op = "update"
    /\ last.match
    /\ ~last.started
    /\ SessionEnded
    /\ BudgetExhausted

\* The frames of the updates before frame k that a ring of PreRollFrames
\* frames holds.
pre_roll_ring(k) ==
    LET first == max(1, k - PreRollFrames)
    IN  [i \in 1..(k - first) |-> first + i - 1]

\* C8: when an update starts a session, the clip holds the frames of the
\* pre-roll ring, in order, and then the frame of that update.
C8_PreRollFlushedAtStart ==
    (last.op = "update" /\ last.started /\ rec.writer # None)
        => rec.clip = pre_roll_ring(nupd) \o <<nupd>>

\* C9: at most one session is started in a run of consecutive updates whose
\* states all match the trigger.
C9_OneSessionPerRun == run_starts <= 1

\* C10 as stated: the update at which an active session's state stops
\* matching writes its frame and leaves the deadline now_ts +
\* stop_grace_seconds armed (read for stop_grace_seconds > 0: with 0 that
\* update is already at the deadline); later non-matching updates before the
\* deadline write their frame; the first at or after it stops the session; a
\* matching update cancels the deadline.
C10_Leaving ==
    (/\ last.op = "update" /\ last.active1 /\ ~last.match
     /\ last.left0 = None /\ cfg.stop_grace_seconds > 0)
        => /\ last.wrote = 1
           /\ rec.stop_deadline_ts = <<now + cfg.stop_grace_seconds>>

C10_WithinGrace ==
    (/\ last.op = "update" /\ last.active1 /\ ~last.match
     /\ last.left0 # None /\ now < LeftAt + cfg.stop_grace_seconds)
        => last.wrote = 1

C10_Expired ==
    (/\ last.op = "update" /\ last.active1 /\ ~last.match
     /\ last.left0 # None /\ now >= LeftAt + cfg.stop_grace_seconds)
        => (last.wrote = 0 /\ rec.writer = None)

C10_Cancelled ==
    (last.op = "update" /\ last.active1 /\ last.match)
        => rec.stop_deadline_ts = None

C10_PostRoll ==
    C10_Leaving /\ C10_WithinGrace /\ C10_Expired /\ C10_Cancelled

\* C10 amended: as C10, but the update at which the state stops matching
\* writes its frame and arms the deadline only when stop_grace_seconds > 0
\* (with 0 it stops the session at once, writing nothing), and the deadline
\* stays armed only if that frame is not the last of the frame budget.
C10_LeavingAmended ==
    (last.op = "update" /\ last.active1 /\ ~last.match /\ last.left0 = None)
        => IF cfg.stop_grace_seconds > 0
           THEN /\ last.wrote = 1
                /\ \/ rec.stop_deadline_ts = <<now + cfg.stop_grace_seconds>>
                   \/ SessionEnded /\ BudgetExhausted
           ELSE last.wrote = 0 /\ rec.writer = None

C10_PostRollAmended ==
    C10_LeavingAmended /\ C10_WithinGrace /\ C10_Expired /\ C10_Cancelled

\* A session is stopped by the first update at its deadline, after an update
\* under the armed deadline wrote its frame.
C10_Witness ==
    /\ last.op = "update"
    /\ last.active1
    /\ ~last.match
    /\ last.left0 # None
    /\ now = LeftAt + cfg.stop_grace_seconds
    /\ rec.writer = None
    /\ Len(rec.clip) >= 2

\* C12: update does no file I/O in the caller's thread: the call itself
\* creates no file and writes no frame to one (it only queues commands for an
\* encoder worker).
C12_UpdateOnlyEnqueues ==
    last.op = "update" => (~last.started /\ last.wrote = 0)

----------------------------------------------------------------------------
(* Properties of the status store, checked under SpecStore (C1 to C3) and  *)
(* under SpecHistory (C4).                                                 *)

\* The get_payload call in progress has read all it reads before its last
\* lines, so that get_payload_return is what it returns if it ends now.
Returning == gp.pc = "got_cols"

C2_DisabledTilesAreNull ==
    Returning =>
        LET video == get_payload_return.video
        IN  \A k \in 1..Len(gp.disabled) :
                (0 <= gp.disabled[k]
                    /\ gp.disabled[k] < video.grid.rows * video.grid.cols)
                    => video.tiles[gp.disabled[k] + 1] = T_None

\* A payload produced with no tile disabled carries a number on tile 1, the
\* mask read by the call holds 1, and tile 1 is returned as null.
C2_Witness ==
    /\ Returning
    /\ gp.payload.video.tiles = List(TilesMotion)
    /\ gp.disabled = <<1>>
    /\ get_payload_return.video.tiles = <<T_Float(5), T_None>>

\* C3: when the payload that get_payload returns was written by set_latest
\* and its video.state is a string, and so is the video.state of the payload
\* written last, the returned ui.current_state is the returned video.state.
C3_CurrentStateIsVideoState ==
    (/\ Returning
     /\ gp.payload \in StorePayloads(clock)
     /\ gp.payload.video.is_dict
     /\ gp.payload.video.state.is_str
     /\ latest.video.is_dict
     /\ latest.video.state.is_str)
        => Str(get_payload_return.ui.current_state)
               = get_payload_return.video.state

\* C4: get_history returns only samples with ts >= now - history_seconds,
\* now being the wall clock at the call.
C4_HistoryWithinWindow ==
    \A i \in 1..Len(get_history_return) :
        get_history_return[i].ts >= clock - history_seconds

\* C28: in what get_payload returns, tiles_indexed is as long as tiles,
\* entry i of it is tile i, its value is "disabled" exactly when tile i is
\* null and the tile's value otherwise, and video.disabled_tiles lists, in
\* ascending order, exactly the indices of the null tiles.
C28_TilesIndexedMatchTiles ==
    Returning =>
        LET video == get_payload_return.video
            n == Len(video.tiles)
        IN  /\ Len(video.tiles_indexed) = n
            /\ \A i \in 1..n :
                   /\ video.tiles_indexed[i].tile = i - 1
                   /\ video.tiles_indexed[i].value = T_Str
                          <=> video.tiles[i] = T_None
                   /\ video.tiles[i] # T_None =>
                          video.tiles_indexed[i].value = video.tiles[i]
            /\ StrictlyIncreasing(video.disabled_tiles)
            /\ { video.disabled_tiles[k] :
                   k \in 1..Len(video.disabled_tiles) }
                 = { i \in 0..(n - 1) : video.tiles[i + 1] = T_None }

\* Tile 1 is null in the payload stored, the mask read by the call holds
\* tile 0 and an index outside the grid, and both tiles are returned as
\* disabled.
C28_Witness ==
    /\ Returning
    /\ gp.payload.video.tiles = List(TilesMasked)
    /\ gp.disabled = <<0, 3>>
    /\ get_payload_return.video.disabled_tiles = <<0, 1>>
    /\ get_payload_return.video.tiles_indexed[2].value = T_Str

-----------------------------------------------------------------------------
(* The values get_payload hands out (server/status_store.py).              *)

\* A caller that keeps the value get_payload gave it.
AppWatching == [AppNew EXCEPT !.watch = TRUE]

WatchInit ==
    /\ MonIdle
    /\ AudioIdle
    /\ StoreInit(2, 1, 2)
    /\ RecOff
    /\ matched = NotMatched
    /\ tiled = NotTiled
    /\ app = AppWatching

\* Every list and dict of a value returned by get_payload: those of the
\* stored payload, and those the call builds in video and ui.
ReturnedContainers ==
    Containers \cup { <<"video", "tiles_indexed">>,
                      <<"video", "disabled_tiles">>,
                      <<"video", "blockiness">>, <<"video", "quality">>,
                      <<"ui", "monitors">> }

\* Callers of get_payload that change what they were given, with the
\* writers of the mask and of the grid.
CopyNext ==
    \/ \E disabled \in DisabledLists : SetDisabledTiles(disabled)
    \/ \E rows \in GridArgs, cols \in GridArgs : SetGrid(rows, cols)
    \/ GetPayload_get_latest
    \/ GetPayload_get_disabled_tiles
    \/ GetPayload_read_grid_rows
    \/ GetPayload_read_grid_cols
    \/ GetPayload_return
    \/ \E path \in ReturnedContainers : Mutate(path)

SpecCopy == WatchInit /\ [][CopyNext]_vars

\* The containers a caller of get_payload can reach in the store are the
\* audio dict and the list overall.reasons, and no other.
SharedIsAudioAndReasons ==
    /\ app.held # None =>
           app.held[1] = { <<"audio">>, <<"overall", "reasons">> }
    /\ app.touched \subseteq { <<"audio">>, <<"overall", "reasons">> }

\* C26: no change made to a value returned by get_payload, at any depth,
\* reaches a container of the store, so that what later get_payload,
\* get_latest and get_history calls return is as if the change had not
\* been made.
C26_MutationNeverReachesStore == app.touched = {}

\* The payloads and the masks written between the reads.
ReadsPayloads ==
    { _status_payload(0, S_MOTION_NO_AUDIO, 1, 2, TilesMotion, S_OK),
      _status_payload(0, S_NO_MOTION_NO_AUDIO, 2, 1, TilesMasked, S_NOT_OK) }

ReadsLists == { <<T_Int(1)>>, <<T_Int(3), T_Int(0)>> }

\* get_payload calls, one after the other, with writes of the payload, the
\* mask and the grid before, between and during them.
ReadsNext ==
    \/ \E payload \in ReadsPayloads : SetLatest(payload)
    \/ \E disabled \in ReadsLists : SetDisabledTiles(disabled)
    \/ SetGrid(2, 1)
    \/ GetPayload_get_latest
    \/ GetPayload_get_disabled_tiles
    \/ GetPayload_read_grid_rows
    \/ GetPayload_read_grid_cols
    \/ GetPayload_return

SpecReads == WatchInit /\ [][ReadsNext]_vars

\* The call in progress returns, with no write since the call before it
\* began.
SecondRead ==
    /\ Returning
    /\ ReadsCurrent
    /\ app.ret # None
    /\ app.ret[1].whole
    /\ app.ret[1].store = StoreFields

\* C27: no step of get_payload changes the latest payload, the history, the
\* mask, the grid or the ui settings, and a call that returns with no write
\* since the call before it began, returns the value that call returned.
C27_ReadsDoNotMutate ==
    /\ [][gp' # gp =>
            UNCHANGED <<history_seconds, latest, history, grid_rows,
                        grid_cols, disabled_tiles, ui>>]_vars
    /\ [][(SecondRead /\ gp' = GetPayloadIdle) =>
            app'.ret[1].value = app.ret[1].value]_vars

\* A second call is about to return, after a payload and a mask were
\* written and then read by the first.
C27_Witness ==
    /\ SecondRead
    /\ latest \in ReadsPayloads
    /\ disabled_tiles # <<>>
    /\ Len(history) = MaxHistory

-----------------------------------------------------------------------------
(* start() and stop() of AudioMeter (analyzer/audio_meter.py) and of       *)
(* MonitorLoop (analyzer/monitor_loop.py), as called one at a time by a    *)
(* thread of main.py, against the worker threads.                          *)

\* threading.Thread(target=self._run, name=name)
Thread(name, k) == [name |-> name, k |-> k]

\* The guard left out: no thread is taken to be alive.
never_alive(thread, alive) == FALSE

\* self._thread is not None and self._thread.is_alive()
is_alive(thread, alive) == thread # None /\ thread[1] \in alive

\* The fields start() and stop() read and write.
Workers ==
    [ audio_stop |-> aud.stop, audio_thread |-> aud.thread,
      monitor_stop |-> mon.stop, monitor_thread |-> mon.thread,
      alive |-> app.alive, spawned |-> app.spawned ]

\* AudioMeter.start
AudioMeter_start(w) ==
    IF is_alive(w.audio_thread, w.alive) THEN w
    ELSE LET thread == Thread("audio-meter", w.spawned + 1)
         IN  [w EXCEPT !.audio_stop = FALSE,
                       !.audio_thread = <<thread>>,
                       !.alive = @ \cup {thread},
                       !.spawned = @ + 1]

\* AudioMeter.stop
AudioMeter_stop(w) == [w EXCEPT !.audio_stop = TRUE]

\* MonitorLoop.start
MonitorLoop_start(w) ==
    IF is_alive(w.monitor_thread, w.alive) THEN w
    ELSE LET audio == AudioMeter_start([w EXCEPT !.monitor_stop = FALSE])
             thread == Thread("motiondetector-monitor", audio.spawned + 1)
         IN  [audio EXCEPT !.monitor_thread = <<thread>>,
                           !.alive = @ \cup {thread},
                           !.spawned = @ + 1]

\* MonitorLoop.stop, on the fields of Workers.
MonitorLoop_stop_(w) ==
    AudioMeter_stop([w EXCEPT !.monitor_stop = TRUE])

\* A call of start or stop made and returned.
Called(op, w) ==
    /\ aud' = [aud EXCEPT !.stop = w.audio_stop, !.thread = w.audio_thread]
    /\ mon' = [mon EXCEPT !.stop = w.monitor_stop,
                          !.thread = w.monitor_thread]
    /\ app' = [app EXCEPT
                  !.alive = w.alive,
                  !.spawned = w.spawned,
                  !.call = <<[op |-> op,
                              n |-> IF app.call = None THEN 0
                                    ELSE 1 - app.call[1].n,
                              was_alive |->
                                  [audio |-> is_alive(aud.thread, app.alive),
                                   monitor |-> is_alive(mon.thread,
                                                        app.alive)]]>>]
    /\ UNCHANGED <<ui, mcfg, pub, acfg, rec_vars, store_vars, trig_vars>>

AudioStartCall ==
    /\ app.spawned + 1 <= MaxThreads
    /\ Called("AudioMeter.start", AudioMeter_start(Workers))

AudioStopCall == Called("AudioMeter.stop", AudioMeter_stop(Workers))

MonitorStartCall ==
    /\ app.spawned + 2 <= MaxThreads
    /\ Called("MonitorLoop.start", MonitorLoop_start(Workers))

MonitorStopCall == Called("MonitorLoop.stop", MonitorLoop_stop_(Workers))

\* AudioMeter._run returns: the loop of the backend found the stop event
\* set, or there is no loop to enter (the meter disabled, line 282).
AudioWorkerEnds(thread) ==
    /\ thread \in app.alive
    /\ thread.name = "audio-meter"
    /\ aud.stop \/ ~acfg.enabled
    /\ app' = [app EXCEPT !.alive = @ \ {thread}]
    /\ UNCHANGED <<ui, aud_vars, mon_vars, rec_vars, store_vars, trig_vars>>

\* MonitorLoop._run ends: the loop found the stop event set (raises is
\* FALSE), or get_region raised (line 426); the finally clause stops the
\* recorder and the meter.
MonitorWorkerEnds(thread, raises) ==
    /\ thread \in app.alive
    /\ thread.name = "motiondetector-monitor"
    /\ mon.stop \/ raises
    /\ app' = [app EXCEPT !.alive = @ \ {thread}]
    /\ StopCall
    /\ aud' = [aud EXCEPT !.stop = TRUE]
    /\ UNCHANGED <<ui, acfg, mon_vars, store_vars, trig_vars>>

LifeNext ==
    \/ AudioStartCall
    \/ AudioStopCall
    \/ MonitorStartCall
    \/ MonitorStopCall
    \/ \E thread \in app.alive : AudioWorkerEnds(thread)
    \/ \E thread \in app.alive, raises \in BOOLEAN :
           MonitorWorkerEnds(thread, raises)

\* Both components constructed and none started; the meter enabled or not.
LifeInit ==
    /\ MonIdle
    /\ acfg \in { c \in AudioConfigs :
                    c.backend = "pyaudiowpatch" /\ c.smooth_samples = 1 }
    /\ aud = AudioNew
    /\ StoreInit(2, 1, 1)
    /\ RecOff
    /\ matched = NotMatched
    /\ tiled = NotTiled
    /\ AppIdle

SpecLife == LifeInit /\ [][LifeNext]_vars

\* The live worker threads of a component.
AliveOf(name) == { thread \in app.alive : thread.name = name }

\* The latest call was op.
LastCall(op) == app.call # None /\ app.call[1].op = op

\* A call of op is made in this step.
Calls(op) == app'.call # app.call /\ app'.call[1].op = op

\* C29: whatever start() and stop() calls are made of the meter and of the
\* loop, each has at most one worker thread alive; a start() made while the
\* component's worker is alive changes nothing; and a stop() sets the stop
\* events and nothing else, so that a second one leaves what the first
\* left.
C29_StartStopIdempotent ==
    /\ [](/\ Cardinality(AliveOf("audio-meter")) <= 1
          /\ Cardinality(AliveOf("motiondetector-monitor")) <= 1)
    /\ [][(Calls("AudioMeter.start") /\ is_alive(aud.thread, app.alive)) =>
            UNCHANGED <<aud, mon, app.alive, app.spawned>>]_vars
    /\ [][(Calls("MonitorLoop.start") /\ is_alive(mon.thread, app.alive)) =>
            UNCHANGED <<aud, mon, app.alive, app.spawned>>]_vars
    /\ [][Calls("AudioMeter.stop") =>
            /\ aud' = [aud EXCEPT !.stop = TRUE]
            /\ UNCHANGED <<mon, app.alive, app.spawned>>]_vars
    /\ [][Calls("MonitorLoop.stop") =>
            /\ aud' = [aud EXCEPT !.stop = TRUE]
            /\ mon' = [mon EXCEPT !.stop = TRUE]
            /\ UNCHANGED <<app.alive, app.spawned>>]_vars

\* MonitorLoop.start was called a second time with both workers alive and
\* no stop between: the two threads of the first call are the ones alive.
C29_Witness ==
    /\ LastCall("MonitorLoop.start")
    /\ app.call[1].was_alive = [audio |-> TRUE, monitor |-> TRUE]
    /\ ~aud.stop /\ ~mon.stop
    /\ app.spawned = 2
    /\ app.alive = { Thread("audio-meter", 1),
                     Thread("motiondetector-monitor", 2) }

-----------------------------------------------------------------------------
(* The loopback worker of AudioMeter (analyzer/audio_meter.py) failing,    *)
(* against the ticks of the monitor loop and the stop calls.               *)

LoopbackNext ==
    \/ Tick
    \/ WarmUp("A")
    \/ Analyse("A", [i \in 1..(grid_rows * grid_cols) |-> 4])
    \/ Finish({}, FALSE)
    \/ MonitorExits
    \/ \E opens \in BOOLEAN : AudioStart(TRUE, opens)
    \/ AudioInitRaises
    \/ AudioPoll(4, 0)
    \/ AudioFail
    \/ \E stop_raises \in BOOLEAN : AudioLoopbackEnds(stop_raises)
    \/ AudioStopCall
    \/ MonitorStopCall

\* The audio thread runs: its last step, when the stop event is set, is
\* taken.
SpecLoopback ==
    /\ LabelInit
    /\ [][LoopbackNext]_vars
    /\ WF_vars(\E stop_raises \in BOOLEAN : AudioLoopbackEnds(stop_raises))

\* The worker has published a failure of the capture.
CaptureFailed == aud.level.reason = "capture_failed"

\* C30: once the open of the loopback device or a read of the stream has
\* failed, the level published is unavailable with reason capture_failed
\* and stays as it is (no sample, no retry), the worker has not raised, it
\* ends only after the stop event is set and then with its stream closed
\* and its handle terminated, and every stop is followed by its end; the
\* monitor thread ends only when stopped, and a tick that classifies the
\* frame with the failed level labels it _NOSOUNDHARDWARE.
C30_CaptureFailureIsContained ==
    /\ [](CaptureFailed =>
            /\ aud.level = Unavailable("capture_failed")
            /\ aud.pc \in {"failed", "done"}
            /\ aud.pa \in {"live", "terminated"}
            /\ aud.pc = "done" =>
                   /\ aud.stop
                   /\ aud.stream \in {"none", "closed", "closed by terminate"}
                   /\ aud.pa = "terminated")
    /\ [][CaptureFailed => aud'.level = aud.level]_vars
    /\ (CaptureFailed /\ aud.stop) ~> (aud.pc = "done")
    /\ [](mon.pc = "dead" => mon.stop)
    /\ []((TickDone /\ pub.kind = "status" /\ pub.audio.reason = "capture_failed")
            => latest.video.state.s[3] = "NOSOUNDHARDWARE")

\* A read failed after samples were published, a tick has classified a
\* frame with the failed level, the meter was stopped, and the worker has
\* ended with the stream closed.
C30_Witness ==
    /\ CaptureFailed
    /\ aud.pc = "done" /\ aud.stream = "closed" /\ aud.pa = "terminated"
    /\ aud.heard # <<>>
    /\ TickDone /\ pub.kind = "status"
    /\ pub.audio = Unavailable("capture_failed")
    /\ latest.video.state.s[3] = "NOSOUNDHARDWARE"
    /\ ~mon.stop

-----------------------------------------------------------------------------
(* The frame budget and the state of the recorder (analyzer/recorder.py).  *)

\* C31: the file of a session never holds more than
\* max(1, round(clip_seconds * fps)) frames; while the session is active the
\* frames written and frames_left add up to that budget, and the call that
\* writes the last frame of the budget ends the session, whatever the state
\* and the stop deadline.
C31_FrameBudgetCapsSession ==
    /\ Len(rec.clip) <= frame_budget(cfg)
    /\ rec.writer # None =>
           /\ Len(rec.clip) + rec.frames_left = frame_budget(cfg)
           /\ Len(rec.clip) < frame_budget(cfg)
    /\ Len(rec.clip) = frame_budget(cfg) => rec.writer = None

\* An update with a matching state, the state never having left the
\* trigger during the session, wrote the fourth and last frame of the
\* budget and left the recorder idle.
C31_Witness ==
    /\ last.op = "update" /\ last.match /\ last.active1
    /\ last.left0 = None
    /\ last.wrote = 1
    /\ frame_budget(cfg) = 4
    /\ Len(rec.clip) = 4
    /\ rec.writer = None

\* A direct maybe_start call, at the time of the latest update (frame 0 is
\* not the frame of any update).
MaybeStart(state, codecs) ==
    /\ last.op # "maybe_start"
    /\ LET r1 == maybe_start(rec, now, state, 0, codecs)
           started == r1.writer # rec.writer
           match == _state_matches_trigger(state)
       IN  /\ rec' = r1
           /\ last' = [ op |-> "maybe_start", match |-> match,
                        active0 |-> rec.writer # None,
                        active1 |-> r1.writer # None,
                        started |-> started, wrote |-> 0,
                        gap |-> IF started /\ start_ts # None
                                THEN <<now - start_ts[1]>> ELSE None,
                        left0 |-> left_at ]
           /\ start_ts' = IF started THEN <<now>> ELSE start_ts
    /\ UNCHANGED <<cfg, now, nupd, left_at, run_starts>>
    /\ UNCHANGED not_rec_vars

\* The four public methods of the recorder, called in any order.
RecApiNext ==
    \/ \E dt \in {0, 2}, state \in {S_NO_MOTION, S_MOTION_NO_AUDIO} :
           Update(dt, state, {"XVID"})
    \/ \E state \in {S_NO_MOTION, S_MOTION_NO_AUDIO},
          codecs \in {{"mp4v", "XVID"}, {}} :
           MaybeStart(state, codecs)
    \/ WriteFrame
    \/ Stop

\* The recorder enabled, with a stop grace of two seconds.
RecApiInit ==
    /\ RecOnlyInit
    /\ cfg.enabled
    /\ cfg.stop_grace_seconds = 2

SpecRecApi == RecApiInit /\ [][RecApiNext]_vars

\* C38: after every call of update, maybe_start, write_frame and stop, an
\* idle recorder has frames_left = 0 and no stop deadline and an active one
\* has frames_left >= 1; and a stop call on an idle recorder leaves every
\* field as it was.
C38_RecorderStateConsistent ==
    /\ [](IF rec.writer = None
          THEN rec.frames_left = 0 /\ rec.stop_deadline_ts = None
          ELSE rec.frames_left >= 1)
    /\ [][(last'.op = "stop" /\ last.op # "stop" /\ rec.writer = None) =>
            rec' = rec]_vars

\* stop was called on an idle recorder, after a session of two frames or
\* more whose last frame an update wrote.
C38_Witness ==
    /\ last.op = "stop" /\ ~last.active0
    /\ last.left0 = None
    /\ Len(rec.clip) >= 2
    /\ rec.clip[Len(rec.clip)] # 0
    /\ start_ts # None
    /\ cfg.stop_grace_seconds = 2

\* The latest call was an update, enabled, with a matching state, an idle
\* recorder and the cooldown over, that left the recorder idle at line 110:
\* _open_writer returned None for the .mp4 and for the .avi.
FailedOpen ==
    /\ last.op = "update"
    /\ cfg.enabled
    /\ last.match
    /\ ~last.active0 /\ ~last.active1
    /\ \/ cfg.cooldown_seconds = 0
       \/ now - rec.last_start_ts >= cfg.cooldown_seconds

\* C40: an update in which neither writer could be opened leaves the
\* recorder idle, creates no file, writes no frame and records no start
\* time (last_start_ts stays the time of the latest session start, 0 when
\* there was none); and the next update with a matching state tries to
\* open a writer again: it starts a session or fails in the same way.
C40_FailedOpenLeavesRecorderIdle ==
    /\ [](rec.last_start_ts = IF start_ts = None THEN 0 ELSE start_ts[1])
    /\ [](FailedOpen =>
            /\ rec.writer = None /\ rec.frames_left = 0
            /\ rec.stop_deadline_ts = None
            /\ ~last.started /\ last.wrote = 0)
    /\ [][(FailedOpen /\ nupd' = nupd + 1 /\ last'.match) =>
            (last'.started \/ FailedOpen')]_vars

\* Both opens failed, in an update that came after a session and after its
\* cooldown.
C40_Witness ==
    /\ FailedOpen
    /\ start_ts # None
    /\ cfg.cooldown_seconds = 2
    /\ rec.created # 0

-----------------------------------------------------------------------------
(* The mask against the grid: indices of the mask that are outside the     *)
(* grid of the payload being built (analyzer/monitor_loop.py and           *)
(* server/status_store.py).                                                *)

\* The ticks of the monitor and get_payload calls, against writes of the
\* mask and of the grid; tile 3 is outside every grid but the 2 x 2.
MaskNext ==
    \/ Tick
    \/ WarmUp("A")
    \/ Analyse("A", [i \in 1..(grid_rows * grid_cols) |-> 4])
    \/ Finish({}, FALSE)
    \/ \E disabled \in { <<>>, <<T_Int(3), T_Int(0)>> } :
           SetDisabledTiles(disabled)
    \/ \E rows \in {1, 2} : SetGrid(rows, 2)
    \/ GetPayload_get_latest
    \/ GetPayload_get_disabled_tiles
    \/ GetPayload_read_grid_rows
    \/ GetPayload_read_grid_cols
    \/ GetPayload_return

SpecMask == LabelInit /\ [][MaskNext]_vars

\* The indices of a mask that are tiles of a grid of n tiles.
WithinGrid(mask, n) == { mask[k] : k \in 1..Len(mask) } \cap (0..(n - 1))

\* The tiles of a list that are None.
NullTiles(tiles) == { i \in 0..(Len(tiles) - 1) : tiles[i + 1] = T_None }

\* C32: the mask of the store holds what was put (a tick, a get_payload
\* call and set_grid leave it as it is: GET /tiles returns it), and a
\* payload is built from the indices within its grid only.  A tick uses the
\* indices of the store's mask that are below rows * cols of the grid it
\* read, and the payload it publishes has rows * cols tiles, None exactly
\* on those; what get_payload returns has rows * cols tiles of its
\* video.grid, video.disabled_tiles within 0..rows*cols-1, None on every
\* index of the mask it read that is within the grid, and no None tile
\* beside those and the tiles that are not numbers in the stored payload.
C32_MaskClampedToGrid ==
    /\ [][disabled_tiles' # disabled_tiles =>
            (mon' = mon /\ gp' = gp /\ latest' = latest
             /\ grid_rows' = grid_rows /\ grid_cols' = grid_cols)]_vars
    /\ [][(mon'.t0 # mon.t0) =>
            { mon'.disabled[k] : k \in 1..Len(mon'.disabled) }
                = WithinGrid(disabled_tiles, grid_rows * grid_cols)]_vars
    /\ []((TickDone /\ pub.kind # "error") =>
            /\ Len(latest.video.tiles.items) = mon.rows * mon.cols
            /\ latest.video.grid = Grid(mon.rows, mon.cols)
            /\ NullTiles(latest.video.tiles.items)
                 = { mon.disabled[k] : k \in 1..Len(mon.disabled) })
    /\ [](Returning =>
            LET video == get_payload_return.video
                n == video.grid.rows * video.grid.cols
                raw == gp.payload.video.tiles.items
            IN  /\ Len(video.tiles) = n
                /\ { video.disabled_tiles[k] :
                       k \in 1..Len(video.disabled_tiles) } \subseteq 0..(n - 1)
                /\ WithinGrid(gp.disabled, n) \subseteq NullTiles(video.tiles)
                /\ NullTiles(video.tiles) \subseteq
                       WithinGrid(gp.disabled, n)
                       \cup { i \in 0..(Len(raw) - 1) :
                                raw[i + 1].t \notin {"int", "float"} })

\* The mask holds tiles 0 and 3.  The latest tick read it under a grid of
\* two tiles and published tile 0 as None; the grid was then enlarged to
\* 2 x 2 and a get_payload call, still on that payload, returns its two
\* tiles.
C32_Witness ==
    /\ disabled_tiles = <<0, 3>>
    /\ TickDone /\ pub.kind = "status"
    /\ mon.rows * mon.cols = 2 /\ mon.disabled = <<0>>
    /\ grid_rows * grid_cols = 4
    /\ Returning /\ gp.disabled = <<0, 3>> /\ gp.payload = latest
    /\ get_payload_return.video.disabled_tiles = <<0>>

\* A tick under the 2 x 2 grid, after one under a grid of two tiles: tile 3
\* of the mask is used again.
MaskAppliesAfterSetGrid ==
    /\ disabled_tiles = <<0, 3>>
    /\ TickDone /\ pub.kind = "status"
    /\ mon.rows * mon.cols = 4 /\ mon.disabled = <<0, 3>>
    /\ Len(history) >= 2

-----------------------------------------------------------------------------
(* The tiles and the grid of what get_payload returns                      *)
(* (server/status_store.py).                                               *)

\* Entry i (from 1) of video.tiles of the stored payload as the claim has
\* it coerced: 0.0 when the tiles are not a list or have no such entry, the
\* number as a float, and None for anything else.
Coerced(tiles_raw, i) ==
    IF ~tiles_raw.is_list \/ i > Len(tiles_raw.items) THEN T_Float(0)
    ELSE LET v == tiles_raw.items[i]
         IN  IF v.t = "float" THEN v
             ELSE IF v.t = "int" THEN T_Float(10 * v.v)
             ELSE T_None

\* C33: what get_payload returns has rows * cols tiles; a tile that the
\* mask read by the call does not disable is the entry of video.tiles of
\* the stored payload coerced: a float for an int or a float, None for
\* None, a bool or a str, 0.0 for an entry past the end of the list or when
\* the tiles are not a list; entries past rows * cols are dropped.
C33_TilesCoerced ==
    Returning =>
        LET video == get_payload_return.video
            n == video.grid.rows * video.grid.cols
        IN  /\ Len(video.tiles) = n
            /\ \A i \in 1..n :
                   video.tiles[i] =
                       IF (i - 1) \in WithinGrid(gp.disabled, n) THEN T_None
                       ELSE Coerced(gp.payload.video.tiles, i)

\* The stored tiles are an int, a bool and a str, with no grid; the call
\* read a 2 x 2 grid and no mask, and returns 1.0, None, None and a 0.0
\* that pads the list.
C33_Witness ==
    /\ Returning
    /\ gp.payload.video.tiles = List(TilesOdd)
    /\ gp.disabled = <<>>
    /\ get_payload_return.video.tiles
         = <<T_Float(10), T_None, T_None, T_Float(0)>>

\* Three stored tiles cut to the one tile of a 1 x 1 grid.
TilesTruncated ==
    /\ Returning
    /\ gp.payload.video.tiles = List(TilesOdd)
    /\ Len(get_payload_return.video.tiles) = 1

\* The grid fallback alone: a payload without a grid object gets the rows
\* and cols the call read from the store (the part of C34 the code keeps).
GridFallbackWithoutGrid ==
    (Returning /\ ~gp.payload.video.grid.is_dict) =>
        get_payload_return.video.grid = [rows |-> gp.rows, cols |-> gp.cols]

\* C34: get_payload returns the grid of the latest payload when that grid
\* has rows >= 1 and cols >= 1, and otherwise (no grid, or rows or cols
\* below 1 as in the error payload of the monitor) the grid_rows and
\* grid_cols of the store, which it reads as one pair: no set_grid falls
\* between its read of the rows and its read of the cols.
C34_GridFromPayloadOrStore ==
    /\ [](Returning =>
            LET grid == gp.payload.video.grid
            IN  get_payload_return.video.grid =
                    IF grid.is_dict /\ grid.rows >= 1 /\ grid.cols >= 1
                    THEN [rows |-> grid.rows, cols |-> grid.cols]
                    ELSE [rows |-> gp.rows, cols |-> gp.cols])
    /\ [][(grid_rows' # grid_rows \/ grid_cols' # grid_cols) =>
            gp.pc # "got_rows"]_vars

----------------------------------------------------------------------------
(* The base label of a classified tick, on a grid of four tiles.           *)

\* The activities of the four tiles of a frame, in tenths.
ActivityTiles ==
    { <<0, 0, 0, 0>>, <<0, 4, 2, 10>>, <<10, 10, 10, 0>>, <<2, 0, 0, 0>> }

ActivityInit ==
    /\ mcfg \in MonitorConfigs
    /\ mon = MonitorNew
    /\ pub = PubNone
    /\ AudioIdle
    /\ StoreInit(2, 2, 2)
    /\ RecOff
    /\ matched = NotMatched
    /\ tiled = NotTiled
    /\ AppIdle

ActivityNext ==
    \/ Tick
    \/ WarmUp("A")
    \/ \E tiles \in ActivityTiles : Analyse("A", tiles)
    \/ Finish({}, FALSE)
    \/ \E disabled \in { <<>>, <<T_Int(3)>>, <<T_Int(0), T_Int(3)>> } :
           mon.pc = "idle" /\ SetDisabledTiles(disabled)

SpecActivity == ActivityInit /\ [][ActivityNext]_vars

\* The tick in progress is classified by this step.
Classifies == mon.pc = "analysed" /\ mon'.pc = "idle" /\ pub'.kind = "status"

\* x < threshold for a fraction x of tenths.
Below(x, threshold) == x[1] < threshold * x[2]

\* C35: a classified tick has exactly one base label.  With act the mean of
\* the three largest enabled tiles (of all of them when fewer are enabled)
\* and ema = alpha * act + (1 - alpha) * ema_prev stored by the tick, the
\* label is NO_MOTION when the grace resolution of the tick's vote says so,
\* whatever the ema, otherwise LOW_ACTIVITY iff ema < low_activity_threshold
\* and MOTION iff ema >= low_activity_threshold; it is the base of the
\* state published.
C35_BaseLabelTotalExclusive ==
    [][Classifies =>
         LET on == { i \in 1..Len(mon.tiles) :
                       \A j \in 1..Len(mon.disabled) :
                           mon.disabled[j] # i - 1 }
             k == min(3, Cardinality(on))
             top == CHOOSE S \in SUBSET on :
                        /\ Cardinality(S) = k
                        /\ \A i \in S, j \in on \ S :
                               mon.tiles[i] >= mon.tiles[j]
             total == sum([ i \in 1..Len(mon.tiles) |->
                              IF i \in top THEN mon.tiles[i] ELSE 0 ])
             a == mcfg.ema_alpha
             prev == mon.ema_activity
             ema == mon'.ema_activity
             vote == \A i \in on : mon.tiles[i] < mcfg.no_motion_threshold
             grace == _resolve_video_state_with_grace(
                          mon.no_motion_votes, mon.t0[1], vote).state
             label == latest'.video.state.s[1]
         IN  /\ k >= 1
             /\ ema[1] * a[2] * k * prev[2]
                    = ema[2] * (a[1] * total * prev[2]
                                  + (a[2] - a[1]) * prev[1] * k)
             /\ label \in {"NO_MOTION", "LOW_ACTIVITY", "MOTION"}
             /\ grace = "NO_MOTION" => label = "NO_MOTION"
             /\ grace # "NO_MOTION" =>
                    /\ label = "LOW_ACTIVITY"
                           <=> Below(ema, mcfg.low_activity_threshold)
                    /\ label = "MOTION"
                           <=> ~Below(ema, mcfg.low_activity_threshold)
             /\ pub'.base = label]_vars

\* A tick of still tiles labelled NO_MOTION while the ema is still at or
\* above low_activity_threshold.
C35_Witness ==
    /\ TickDone /\ pub.kind = "status"
    /\ pub.base = "NO_MOTION"
    /\ ~Below(mon.ema_activity, mcfg.low_activity_threshold)

\* LOW_ACTIVITY on an ema that is no whole number of tenths, three of the
\* four tiles enabled.
LowActivityOnMaskedGrid ==
    /\ TickDone /\ pub.kind = "status"
    /\ pub.base = "LOW_ACTIVITY"
    /\ Len(mon.disabled) = 1
    /\ mon.ema_activity[2] > 1

----------------------------------------------------------------------------
(* The tiles of a diff image: _edges and _tile_means called directly.      *)

\* The longest side of a diff image, the most parts of a side, and the
\* longest side given to _edges alone.
MaxSide == 3
MaxParts == 3
MaxSize == 7

\* The diff images of h rows and w columns: all 0, all 255, and one pixel
\* at 255 among pixels at 0.
Diffs(h, w) ==
    LET at == (1..h) \X (1..w)
    IN  { [h |-> h, w |-> w, at |-> [ q \in at |-> v ]] : v \in {0, 255} }
        \cup { [h |-> h, w |-> w,
                at |-> [ q \in at |-> IF q = lit THEN 255 ELSE 0 ]] :
               lit \in at }

\* The arguments of one call of _edges or of _tile_means.
EdgesInit ==
    /\ RecOff
    /\ StoreIdle
    /\ matched = NotMatched
    /\ AppIdle
    /\ AudioIdle
    /\ MonIdle
    /\ \/ \E size \in 0..MaxSize, parts \in 0..MaxParts :
              tiled = [NotTiled EXCEPT !.called = "_edges", !.size = size,
                                       !.parts = parts]
       \/ \E h \in 0..MaxSide, w \in 0..MaxSide, rows \in 0..MaxParts,
             cols \in 0..MaxParts :
              \E diff_u8 \in Diffs(h, w) :
                  tiled = [NotTiled EXCEPT !.called = "_tile_means",
                                           !.diff = diff_u8, !.rows = rows,
                                           !.cols = cols]

\* The call of _edges returns or raises.
Edges ==
    /\ tiled.called = "_edges" /\ ~tiled.returned
    /\ tiled' = [tiled EXCEPT !.returned = TRUE,
                              !.edges = _edges(tiled.size, tiled.parts)]
    /\ UNCHANGED <<matched, not_trig_vars>>

\* The call of _tile_means returns or raises.
TileMeans ==
    /\ tiled.called = "_tile_means" /\ ~tiled.returned
    /\ tiled' = [tiled EXCEPT !.returned = TRUE,
                              !.out = _tile_means(tiled.diff, tiled.rows,
                                                  tiled.cols)]
    /\ UNCHANGED <<matched, not_trig_vars>>

EdgesNext ==
    \/ Edges
    \/ TileMeans

SpecEdges == EdgesInit /\ [][EdgesNext]_vars

\* parts + 1 integers from 0 to size, none below the one before it.
Partition(edges, size, parts) ==
    /\ Len(edges) = parts + 1
    /\ edges[1] = 0
    /\ edges[parts + 1] = size
    /\ \A i \in 1..parts : edges[i] <= edges[i + 1]

\* The pixels <<row, column>>, from 0, of tile r, c of a grid.
TilePixels(diff_u8, rows, cols, r, c) ==
    LET y_edges == _edges(diff_u8.h, rows)
        x_edges == _edges(diff_u8.w, cols)
    IN  { q \in (0..(diff_u8.h - 1)) \X (0..(diff_u8.w - 1)) :
            /\ y_edges[r + 1] <= q[1] /\ q[1] < y_edges[r + 2]
            /\ x_edges[c + 1] <= q[2] /\ q[2] < x_edges[c + 2] }

\* The number of pixels at 255 among the pixels given.
Lit(diff_u8, pixels) ==
    Cardinality({ q \in pixels : diff_u8.at[<<q[1] + 1, q[2] + 1>>] = 255 })

\* C36: for size >= 0 and parts >= 1, _edges returns parts + 1 integers
\* that start at 0, end at size and never decrease; so every pixel of a
\* diff image lies in exactly one of the rows x cols tiles, and _tile_means
\* returns rows * cols values, the value of tile r, c at index r * cols + c
\* being the mean of its pixels over 255, and 0.0 for a tile without
\* pixels.
C36_EdgesPartitionAndTileMeans ==
    /\ (tiled.called = "_edges" /\ tiled.returned
          /\ tiled.size >= 0 /\ tiled.parts >= 1) =>
           Partition(tiled.edges, tiled.size, tiled.parts)
    /\ (tiled.called = "_tile_means" /\ tiled.returned
          /\ tiled.rows >= 1 /\ tiled.cols >= 1) =>
           LET diff_u8 == tiled.diff
               rows == tiled.rows
               cols == tiled.cols
           IN  /\ Partition(_edges(diff_u8.h, rows), diff_u8.h, rows)
               /\ Partition(_edges(diff_u8.w, cols), diff_u8.w, cols)
               /\ \A q \in (0..(diff_u8.h - 1)) \X (0..(diff_u8.w - 1)) :
                      Cardinality({ t \in (0..(rows - 1)) \X (0..(cols - 1)) :
                          q \in TilePixels(diff_u8, rows, cols, t[1], t[2]) })
                          = 1
               /\ Len(tiled.out) = rows * cols
               /\ \A r \in 0..(rows - 1), c \in 0..(cols - 1) :
                      LET pixels == TilePixels(diff_u8, rows, cols, r, c)
                          mean == tiled.out[r * cols + c + 1]
                      IN  IF pixels = {} THEN mean = <<0, 1>>
                          ELSE mean[1] * Cardinality(pixels)
                                   = mean[2] * Lit(diff_u8, pixels)

\* A 3 x 2 image in a 2 x 3 grid: the tiles of the middle column are empty
\* (the edges of 2 columns in 3 parts are 0, 1, 1, 2), and the one pixel at
\* 255 is half of the first tile, of two rows (the edges of 3 rows in 2
\* parts are 0, 2, 3).
C36_Witness ==
    /\ tiled.called = "_tile_means" /\ tiled.returned
    /\ tiled.diff.h = 3 /\ tiled.diff.w = 2
    /\ tiled.rows = 2 /\ tiled.cols = 3
    /\ tiled.out = << <<1, 2>>, <<0, 1>>, <<0, 1>>,
                      <<0, 1>>, <<0, 1>>, <<0, 1>> >>

\* A half rounded to the even integer: 5 in 2 parts is 0, 2, 5.
EdgesRoundHalfEven ==
    /\ tiled.called = "_edges" /\ tiled.returned
    /\ tiled.size = 5 /\ tiled.parts = 2
    /\ tiled.edges = <<0, 2, 5>>

\* rows or cols below 1 raise.
TileMeansRaises ==
    (tiled.called = "_tile_means" /\ tiled.returned
       /\ (tiled.rows < 1 \/ tiled.cols < 1)) =>
        tiled.out = ValueError

----------------------------------------------------------------------------
(* MonitorLoop.stop against the ticks of the worker.  The period sleep and *)
(* the back-off after a failed grab are _stop.wait(timeout) (lines 432 and *)
(* 444): the worker between two ticks leaves as soon as the event is set.  *)

StopNext ==
    \/ Tick
    \/ WarmUp("A")
    \/ \E where \in {"grab", "process"} : TickRaises(where)
    \/ RegionRaises
    \/ AnalyseAny
    \/ Finish({"mp4v", "XVID"}, FALSE)
    \/ MonitorStopCall
    \/ MonitorExits

\* The worker is a thread of its own: it finishes the tick it is in, and it
\* leaves the loop once it finds the event set.
SpecStop ==
    /\ QuitInit
    /\ [][StopNext]_vars
    /\ WF_vars(MonitorExits)
    /\ FinishFair

\* Once the stop event is set no tick begins, and only a tick in progress
\* publishes.
NoTickAfterStop ==
    /\ [][mon.stop => mon'.t0 = mon.t0]_vars
    /\ [][(mon.stop /\ mon.pc # "analysed") =>
            (latest' = latest /\ history' = history)]_vars

\* After stop the worker ends with the recorder and the meter stopped (the
\* part of C37 that the code keeps).
StopEndsWorker ==
    /\ NoTickAfterStop
    /\ mon.stop ~> (mon.pc = "dead" /\ rec.writer = None /\ aud.stop)

\* C37: after MonitorLoop.stop the worker publishes at most one further
\* payload, that of the tick in progress; it starts no new tick, and it
\* ends with its cleanup done: the recorder stopped, the thread resources
\* of the capturer (the mss instance of the monitor thread) closed and the
\* audio meter stopped.
C37_StopEndsWorkerAndCleansUp ==
    /\ NoTickAfterStop
    /\ mon.stop ~> (mon.pc = "dead" /\ rec.writer = None /\ aud.stop
                      /\ ~mon.sct)

\* The worker ended by stop with a session open: the writer is released.
StoppedWhileRecording ==
    /\ mon.pc = "dead" /\ mon.stop
    /\ last.op = "stop" /\ last.active0 /\ rec.writer = None

----------------------------------------------------------------------------
(* The end of a recording session while the loop goes on ticking.  The     *)
(* history window is negative (config.py takes any number), so that the    *)
(* store keeps no sample; the times after MaxTime are one time.            *)

SessionInit ==
    /\ mcfg \in { c \in MonitorConfigs :
                    /\ c.no_motion_grace_period_seconds = 0
                    /\ c.no_motion_grace_required_ratio = <<1, 1>> }
    /\ mon = MonitorNew
    /\ pub = PubNone
    /\ AudioIdle
    /\ StoreInit(-1, 1, 1)
    /\ RecInit
    /\ cfg.enabled /\ cfg.clip_seconds = 1 /\ cfg.cooldown_seconds = 0
    /\ cfg.fps = <<3, 2>> /\ cfg.stop_grace_seconds = 0
    /\ matched = NotMatched
    /\ tiled = NotTiled
    /\ AppIdle

\* time.time() after MaxTime.
TimePasses ==
    /\ clock = MaxTime
    /\ clock' = MaxTime + 1
    /\ UNCHANGED <<history_seconds, latest, history, grid_rows, grid_cols,
                   disabled_tiles, gp>>
    /\ UNCHANGED not_store_vars

\* A tick that will feed the recorder begins while the recorder can still
\* be fed; a tick with every tile disabled always can.
SessionNext ==
    \/ Tick
    \/ TimePasses
    \/ WarmUp("A")
    \/ \E level \in TileLevels :
           /\ nupd < MaxUpdates \/ disabled_tiles = <<0>>
           /\ Analyse("A", <<level>>)
    \/ Finish({"mp4v", "XVID"}, FALSE)
    \/ \E disabled \in { <<>>, <<T_Int(0)>> } :
           mon.pc = "idle" /\ SetDisabledTiles(disabled)
    \/ MonitorStopCall
    \/ MonitorExits

\* The worker is a thread of its own: it finishes the tick it is in, and it
\* leaves the loop once it finds the event set.
SpecSession ==
    /\ SessionInit
    /\ [][SessionNext]_vars
    /\ WF_vars(MonitorExits)
    /\ FinishFair

\* A tick ends with a payload published; it fed the recorder.
TickEnds == mon.pc = "analysed" /\ mon'.pc = "idle"
TickFeeds == TickEnds /\ pub'.fed

SessionOpen == rec.writer # None

\* A tick that does not feed the recorder leaves it as it is.
UnfedTickLeavesRecorder ==
    [][(TickEnds /\ ~pub'.fed) => rec' = rec]_vars

\* Every session ends when the loop is stopped or goes on feeding the
\* recorder (the part of C39 that the code keeps).
SessionsEndWhenFedOrStopped ==
    ([]<><<TickFeeds>>_vars \/ <>mon.stop) =>
        [](SessionOpen => <>(~SessionOpen))

\* C39: if the monitor loop goes on ticking or is stopped at some time, every
\* recorder session that was started is stopped at some time and its writer
\* released, also when the ticks of the session are ticks that do not feed
\* the recorder (warm-up, capture error, every tile disabled).
C39_EverySessionEnds ==
    ([]<><<TickEnds>>_vars \/ <>mon.stop) =>
        [](SessionOpen => <>(~SessionOpen))

\* A session open at a tick with every tile disabled, after MaxTime.
SessionOpenAllTilesDisabled ==
    /\ SessionOpen /\ clock > MaxTime
    /\ TickDone /\ pub.kind = "all_tiles_disabled"
    /\ mon.t0 = <<clock>>

====
